---- MODULE Spec2Model ----
(***************************************************************************)
(* Model of the caching layer of the FHIR Patient Manager: the Express API *)
(* in front of the FHIR server (the remote system-of-record), its local    *)
(* PostgreSQL cache (tables patients and sync_state), the incremental      *)
(* _lastUpdated sync (syncPatients) and the isSyncing guard.               *)
(*                                                                         *)
(* A resource version is identified by the meta.lastUpdated timestamp the  *)
(* remote gave it: every remote write takes a fresh clock value, so        *)
(* <<id, t>> names one content of one resource.  0 stands for "no row" /   *)
(* "no resource" / NULL.                                                   *)
(*                                                                         *)
(* Every call to the FHIR server and every statement on the DB is a step   *)
(* of its own, so requests and a sync cycle interleave between them.  The  *)
(* FHIR server fixes the result set of a search at the first request and   *)
(* hands it out page by page.  A cycle may upsert the resources of a page  *)
(* before or after it follows the next link: both orders are steps of the  *)
(* model.                                                                  *)
(*                                                                         *)
(* The second part models the browser application that exists today: the   *)
(* data layer patients.ts (validate, patientToFhir, loggedFetch, getMany,   *)
(* getOne, createOne, updateOne, deleteOne), the API log apiLog.ts and the  *)
(* handlers of PatientList, PatientShow, PatientCreate and PatientEdit.     *)
(* It has its own specification, UiSpec; the variables of the server keep   *)
(* their initial values there, and those of the browser keep theirs in      *)
(* Spec.  DataSpec calls validate and updateOne on their own, with any      *)
(* argument.  A string the code inspects character by character is a       *)
(* sequence of one-character strings; an object with optional properties   *)
(* is a function whose domain holds the properties that are defined.       *)
(***************************************************************************)
EXTENDS Integers, Sequences, FiniteSets, TLC

\* ---- bounds of the model ----
NumIds == 2
MaxTime == 3
NumClients == 1
NumSlots == 2
\* patients the FHIR server knows in the browser part
NumPids == 2
\* data-layer calls that can be in flight at once
NumCalls == 1
\* HTTP requests the browser sends in a run
MaxReq == 3
\* calls of addEntry and clearEntries made directly on the log
MaxOps == 4
\* calls of subscribe, and the listener functions they are made with
MaxSubs == 2
NumFns == 2

\* ---- program constants (scaled to model units) ----
\* _count=100 of the sync request, scaled so that a result set spans pages
PageSize == 1
\* CACHE_STALE_MS, in clock ticks of the model
CACHE_STALE_MS == 1

Null == 0
Ids == 1..NumIds
Clients == 1..NumClients
Slots == 1..NumSlots

VARIABLES
    now,        \* the wall clock (NOW(), meta.lastUpdated source)
    remote,     \* FHIR server: id -> lastUpdated of the current version, 0 = absent
    assigned,   \* ids the FHIR server has ever assigned
    store,      \* table patients: id -> lastUpdated of the cached fhir_resource, 0 = no row
    watermark,  \* sync_state.last_sync_time, Null = never synced
    isSyncing,  \* the guard of index.ts
    cyc,        \* the executions of syncPatients(), one per slot
    req,        \* the requests in flight at the Express API, one per client
    returned,   \* history: the <<id, t>> the remote returned from a successful call
    synced      \* history: the ids whose current remote version a sync cycle has upserted

\* the browser application
VARIABLES
    route,      \* the page shown: [page, id]
    view,       \* state of the page component: isLoading, rows, patient, error
    form,       \* formState.values of the create / edit form
    errors,     \* formState.errors
    dialog,     \* the open confirmation dialog: [id, from, live], id 0 = none
    calls,      \* the data-layer calls in flight, with the handler awaiting each
    log,        \* apiLog entries, newest first
    notice,     \* the last notification shown
    sent,       \* history: the number of HTTP requests sent
    validated   \* the last call of validate: [done, p, issues]

\* the apiLog module (its entries are the variable log)
VARIABLES
    listeners,  \* apiLog.ts listeners: [fn, sub], sub (history) is the call of subscribe that put it there
    subs,       \* history: the calls of subscribe: [fn, on, n]
    hist,       \* history: the calls of addEntry and clearEntries, oldest first
    ret         \* what the last getEntries / getSnapshot returned: [by, val]

srvVars == <<now, remote, assigned, store, watermark, isSyncing, cyc, req,
             returned, synced>>

logVars == <<listeners, subs, hist, ret>>

uiVars == <<route, view, form, errors, dialog, calls, log, notice, sent,
            validated, listeners, subs, hist, ret>>

\* the state of the pages and of the calls
pageVars == <<route, view, form, errors, dialog, calls, notice, sent,
              validated>>

\* what the handlers of the pages and the HTTP steps leave alone
offPage == <<now, remote, assigned, store, watermark, isSyncing, cyc, req,
             returned, synced, validated, listeners, subs, hist, ret>>

vars == <<now, remote, assigned, store, watermark, isSyncing, cyc, req,
          returned, synced, route, view, form, errors, dialog, calls, log,
          notice, sent, validated, listeners, subs, hist, ret>>

\* ---------------------------------------------------------------------
\* Local store (tables patients and sync_state)
\* ---------------------------------------------------------------------

\* (variant: ON CONFLICT (id) DO NOTHING, an existing row is kept)
Upsert_InsertOnly(s, id, t) == IF s[id] # 0 THEN s ELSE [s EXCEPT ![id] = t]

\* INSERT ... ON CONFLICT (id) DO UPDATE: full replace of the row keyed by id
Upsert(s, id, t) == [s EXCEPT ![id] = t]

\* DELETE FROM patients WHERE id=$1
DeleteRow(s, id) == [s EXCEPT ![id] = 0]

\* SELECT ... WHERE id=$1: the row, 0 when there is none
GetRow(s, id) == s[id]

\* ---------------------------------------------------------------------
\* Remote (FHIR server) search used by the sync
\* ---------------------------------------------------------------------

\* the ids a sync request matches: everything on the first run,
\* _lastUpdated=gt<last_sync_time> afterwards
Matching(w) == {i \in Ids : remote[i] # 0 /\ (w = Null \/ remote[i] > w)}

\* the matching resources in descending recency order (_sort=-_lastUpdated)
RECURSIVE SortDesc(_)
SortDesc(S) ==
    IF S = {} THEN <<>>
    ELSE LET m == CHOOSE i \in S : \A j \in S : remote[j] <= remote[i]
         IN  <<(<<m, remote[m]>>)>> \o SortDesc(S \ {m})

Take(q, n) == SubSeq(q, 1, IF Len(q) < n THEN Len(q) ELSE n)
Drop(q, n) == SubSeq(q, (IF Len(q) < n THEN Len(q) ELSE n) + 1, Len(q))

\* ---------------------------------------------------------------------
\* Browser: values of the data layer (patients.ts)
\* ---------------------------------------------------------------------

PIds == 1..NumPids
CallSlots == 1..NumCalls

\* the fields of the patient form
Fields == {"family", "given", "gender", "birthDate", "phone"}

\* property k of object o is defined; the empty function stands for an
\* object without properties and for undefined (o?.k is then undefined)
Has(o, k) == k \in DOMAIN o
NoObj == <<>>

\* { ...a, ...b }
Merge(a, b) ==
    [k \in DOMAIN a \cup DOMAIN b |-> IF k \in DOMAIN b THEN b[k] ELSE a[k]]

\* character classes of the regular expressions: \d and (a part of) \s
Digit == {"0", "1", "2", "3", "4", "5", "6", "7", "8", "9"}
Whitespace == {" ", "\t", "\n"}

\* /^\d{4}-\d{2}-\d{2}$/.test(s)
TestBirthDate(s) ==
    /\ Len(s) = 10
    /\ \A i \in {1, 2, 3, 4, 6, 7, 9, 10} : s[i] \in Digit
    /\ s[5] = "-" /\ s[8] = "-"

\* /^[\d\s\-+()]+$/.test(s)
TestPhone(s) ==
    /\ Len(s) >= 1
    /\ \A i \in 1..Len(s) : s[i] \in Digit \cup Whitespace \cup {"-", "+", "(", ")"}

\* the strings the model enters into the form or receives from the server
S_Doe == <<"D", "o", "e">>
S_Jo == <<"J", "o">>
S_male == <<"m", "a", "l", "e">>
S_female == <<"f", "e", "m", "a", "l", "e">>
S_other == <<"o", "t", "h", "e", "r">>
S_unknown == <<"u", "n", "k", "n", "o", "w", "n">>
S_robot == <<"r", "o", "b", "o", "t">>
S_Unknown == <<"U", "n", "k", "n", "o", "w", "n">>
S_JoAnn == <<"J", "o", " ", "A", "n", "n">>
S_Jo_Ann == <<"J", "o", " ", " ", "A", "n", "n">>
S_JoSp == <<"J", "o", " ">>
BD_Good == <<"1", "9", "9", "0", "-", "0", "1", "-", "3", "1">>
BD_Bad == <<"1", "9", "9", "0", "-", "1", "-", "3", "1">>
BD_Slash == <<"1", "9", "9", "0", "/", "0", "1", "/", "3", "1">>
PH_Good == <<"+", "1", " ", "(", "5", ")", "-", "2">>
PH_Bad == <<"5", "5", "x">>

\* what the user types into a field of the form
FieldValues(f) ==
    CASE f = "family" -> {S_Doe}
      [] f = "given" -> {S_Jo}
      [] f = "gender" -> {S_robot}
      [] f = "birthDate" -> {BD_Good}
      [] f = "phone" -> {PH_Good}

\* !patient[f]: undefined or the empty string
Falsy(p, f) == ~Has(p, f) \/ p[f] = <<>>

Issue(m, f) == [message |-> m, path |-> f]

\* (variant: the format checks run for every field, also a missing one)
validate_NoElse(p) ==
    (IF Falsy(p, "family")
     THEN <<Issue("Family name is required", "family")>> ELSE <<>>)
    \o (IF Falsy(p, "given")
        THEN <<Issue("Given name is required", "given")>> ELSE <<>>)
    \o (IF Falsy(p, "gender")
        THEN <<Issue("Gender is required", "gender"),
               Issue("Gender must be \"male\", \"female\", \"other\" or \"unknown\"", "gender")>>
        ELSE <<>>)
    \o (IF Falsy(p, "birthDate")
        THEN <<Issue("Birth date is required", "birthDate"),
               Issue("Birth date must be in YYYY-MM-DD format", "birthDate")>>
        ELSE <<>>)
    \o (IF Falsy(p, "phone")
        THEN <<Issue("Phone number is required", "phone"),
               Issue("Phone number contains invalid characters", "phone")>>
        ELSE <<>>)

\* validate(patient): the list of issues, in the order of the checks
validate(p) ==
    (IF Falsy(p, "family")
     THEN <<Issue("Family name is required", "family")>> ELSE <<>>)
    \o (IF Falsy(p, "given")
        THEN <<Issue("Given name is required", "given")>> ELSE <<>>)
    \o (IF Falsy(p, "gender")
        THEN <<Issue("Gender is required", "gender")>>
        ELSE IF p["gender"] \notin {S_male, S_female, S_other, S_unknown}
        THEN <<Issue("Gender must be \"male\", \"female\", \"other\" or \"unknown\"", "gender")>>
        ELSE <<>>)
    \o (IF Falsy(p, "birthDate")
        THEN <<Issue("Birth date is required", "birthDate")>>
        ELSE IF ~TestBirthDate(p["birthDate"])
        THEN <<Issue("Birth date must be in YYYY-MM-DD format", "birthDate")>>
        ELSE <<>>)
    \o (IF Falsy(p, "phone")
        THEN <<Issue("Phone number is required", "phone")>>
        ELSE IF ~TestPhone(p["phone"])
        THEN <<Issue("Phone number contains invalid characters", "phone")>>
        ELSE <<>>)

\* the message of "undefined" in formState.errors
NoMsg == ""

\* issues.find((issue) => issue.path[0] === name)?.message
IssueFor(issues, f) ==
    IF \E k \in DOMAIN issues : issues[k].path = f
    THEN issues[CHOOSE k \in DOMAIN issues :
                    /\ issues[k].path = f
                    /\ \A j \in DOMAIN issues : issues[j].path = f => k <= j].message
    ELSE NoMsg

\* Object.fromEntries(issues.map((issue) => [issue.path[0], issue.message])):
\* of two entries with the same key the later one stays
ErrorsOf(issues) ==
    [f \in {issues[k].path : k \in DOMAIN issues} |->
        issues[CHOOSE k \in DOMAIN issues :
                    /\ issues[k].path = f
                    /\ \A j \in DOMAIN issues : issues[j].path = f => j <= k].message]

\* s.split(' ').filter(Boolean)
RECURSIVE Split(_)
Split(s) ==
    IF s = <<>> THEN <<>>
    ELSE LET k == IF \E i \in 1..Len(s) : s[i] = " "
                  THEN CHOOSE i \in 1..Len(s) :
                          s[i] = " " /\ \A j \in 1..(i - 1) : s[j] # " "
                  ELSE Len(s) + 1
             head == SubSeq(s, 1, k - 1)
         IN  (IF head = <<>> THEN <<>> ELSE <<head>>)
             \o Split(SubSeq(s, k + 1, Len(s)))

\* list.join(' ')
RECURSIVE Join(_)
Join(l) ==
    IF l = <<>> THEN <<>>
    ELSE IF Len(l) = 1 THEN l[1]
    ELSE l[1] \o <<" ">> \o Join(Tail(l))

\* patientToFhir(patient): only the elements whose fields are defined
patientToFhir(p) ==
    Merge(Merge(Merge(Merge(
        [resourceType |-> "Patient"],
        IF Has(p, "family") \/ Has(p, "given")
        THEN [name |-> <<[use |-> "official",
                          family |-> IF Has(p, "family") THEN p["family"] ELSE <<>>,
                          given |-> IF Falsy(p, "given") THEN <<>>
                                    ELSE Split(p["given"])]>>]
        ELSE NoObj),
        IF Has(p, "gender") THEN [gender |-> p["gender"]] ELSE NoObj),
        IF Has(p, "birthDate") THEN [birthDate |-> p["birthDate"]] ELSE NoObj),
        IF Has(p, "phone")
        THEN [telecom |-> <<[system |-> "phone", value |-> p["phone"],
                             use |-> "mobile"]>>]
        ELSE NoObj)

\* the first element of list l with l[i][k] = v, undefined if there is none
FindBy(l, k, v) ==
    IF \E i \in DOMAIN l : Has(l[i], k) /\ l[i][k] = v
    THEN l[CHOOSE i \in DOMAIN l :
              /\ Has(l[i], k) /\ l[i][k] = v
              /\ \A j \in DOMAIN l : (Has(l[j], k) /\ l[j][k] = v) => i <= j]
    ELSE NoObj

\* fhirToPatient(resource): the flat patient of the UI
fhirToPatient(r) ==
    LET names == IF Has(r, "name") THEN r["name"] ELSE <<>>
        official == FindBy(names, "use", "official")
        officialName == IF DOMAIN official # {} THEN official
                        ELSE IF names # <<>> THEN names[1] ELSE NoObj
        family == IF Has(officialName, "family") THEN officialName["family"] ELSE <<>>
        given == IF Has(officialName, "given") THEN Join(officialName["given"]) ELSE <<>>
        parts == (IF given = <<>> THEN <<>> ELSE <<given>>)
                 \o (IF family = <<>> THEN <<>> ELSE <<family>>)
        telecom == IF Has(r, "telecom") THEN r["telecom"] ELSE <<>>
        phone == FindBy(telecom, "system", "phone")
    IN  [id |-> IF Has(r, "id") THEN r["id"] ELSE 0,
         name |-> IF Has(officialName, "text") THEN officialName["text"]
                  ELSE IF Join(parts) = <<>> THEN S_Unknown ELSE Join(parts),
         family |-> family,
         given |-> given,
         gender |-> IF Has(r, "gender") THEN r["gender"] ELSE <<>>,
         birthDate |-> IF Has(r, "birthDate") THEN r["birthDate"] ELSE <<>>,
         phone |-> IF Has(phone, "value") THEN phone["value"] ELSE <<>>]

\* the Patient resources the FHIR server answers a GET of id with: a full
\* one with elements the form does not know, and a bare one
Resources(id) ==
    { [resourceType |-> "Patient", id |-> id,
       meta |-> [versionId |-> "7"],
       name |-> <<[use |-> "official", family |-> S_Doe, given |-> <<S_Jo>>]>>,
       gender |-> S_female, birthDate |-> BD_Good,
       telecom |-> <<[system |-> "email", value |-> S_Jo],
                     [system |-> "phone", value |-> PH_Good, use |-> "home"]>>,
       address |-> <<[city |-> S_Doe]>>],
      [resourceType |-> "Patient", id |-> id, active |-> TRUE] }

\* (variant: the body is built from the form alone)
mergedResource_FormOnly(existing, data, patientId) ==
    Merge(Merge(patientToFhir(data), [resourceType |-> "Patient"]),
          [id |-> patientId])

\* updateOne: { ...existingResource, ...updates, resourceType, id }
mergedResource(existing, data, patientId) ==
    Merge(Merge(Merge(existing, patientToFhir(data)),
                [resourceType |-> "Patient"]),
          [id |-> patientId])

\* stands for undefined when the value of a property is chosen
Undef == <<"undefined">>

\* s.trim()
Trim(s) ==
    LET ix == {i \in 1..Len(s) : s[i] \notin Whitespace}
    IN  IF ix = {} THEN <<>>
        ELSE SubSeq(s, CHOOSE i \in ix : \A j \in ix : i <= j,
                       CHOOSE i \in ix : \A j \in ix : j <= i)

\* String(n) of a non-negative integer
RECURSIVE StringOf(_)
StringOf(n) ==
    LET d == <<"0", "1", "2", "3", "4", "5", "6", "7", "8", "9">>
    IN  IF n < 10 THEN <<d[n + 1]>>
        ELSE StringOf(n \div 10) \o <<d[(n % 10) + 1]>>

S_accurate == <<"a", "c", "c", "u", "r", "a", "t", "e">>

\* FIELD_TO_FHIR_PARAM
FIELD_TO_FHIR_PARAM ==
    [f \in {"name", "family", "given", "phone", "gender", "birthDate"} |->
        CASE f = "phone" -> "telecom"
          [] f = "birthDate" -> "birthdate"
          [] OTHER -> f]

\* FIELD_TO_FHIR_SORT
FIELD_TO_FHIR_SORT ==
    [f \in {"name", "family", "given", "gender", "birthDate", "phone"} |->
        CASE f = "phone" -> "telecom"
          [] f = "birthDate" -> "birthdate"
          [] OTHER -> f]

\* sortModel.map(...).filter(Boolean).join(','): the characters of the
\* value of _sort; a field name counts as one character
RECURSIVE SortParts(_)
SortParts(sm) ==
    IF sm = <<>> THEN <<>>
    ELSE LET rest == SortParts(Tail(sm))
             f == Head(sm).field
             part == (IF Head(sm).sort = "desc" THEN <<"-">> ELSE <<>>)
                         \o <<FIELD_TO_FHIR_SORT[f]>>
         IN  IF f \notin DOMAIN FIELD_TO_FHIR_SORT THEN rest
             ELSE IF rest = <<>> THEN part
             ELSE part \o <<",">> \o rest

\* for (const { field, value } of filterModel.items): params.set
RECURSIVE ApplyFilters(_, _)
ApplyFilters(params, items) ==
    IF items = <<>> THEN params
    ELSE LET it == Head(items)
         IN  IF it.field = "" \/ it.value \in {Undef, <<>>}
                \/ it.field \notin DOMAIN FIELD_TO_FHIR_PARAM
             THEN ApplyFilters(params, Tail(items))
             ELSE ApplyFilters(
                      Merge(params, [k \in {FIELD_TO_FHIR_PARAM[it.field]} |-> it.value]),
                      Tail(items))

\* getMany: the URLSearchParams of the request, in the order the code
\* sets them: _count, _offset, _total, then _sort, then the quick search,
\* then the column filters
getManyParams(a) ==
    LET ps == a.paginationModel.pageSize
        base == [k \in {"_count", "_offset", "_total"} |->
                    CASE k = "_count" -> StringOf(ps)
                      [] k = "_offset" -> StringOf(a.paginationModel.page * ps)
                      [] OTHER -> S_accurate]
        sorted == IF SortParts(a.sortModel) # <<>>
                  THEN Merge(base, [k \in {"_sort"} |-> SortParts(a.sortModel)])
                  ELSE base
        term == Trim(a.quickSearch)
        searched == IF a.quickSearch # Undef /\ a.quickSearch # <<>> /\ term # <<>>
                    THEN Merge(sorted,
                               [k \in {IF TestPhone(term) THEN "telecom" ELSE "name"} |-> term])
                    ELSE sorted
    IN  ApplyFilters(searched, a.filterModel.items)

\* PatientList: INITIAL_PAGE_SIZE
INITIAL_PAGE_SIZE == 10

\* PatientList: the arguments of getPatients in loadData for the initial
\* state of the list (no search parameters in the page's URL)
InitialListArgs ==
    [paginationModel |-> [page |-> 0, pageSize |-> INITIAL_PAGE_SIZE],
     sortModel |-> <<>>, filterModel |-> [items |-> <<>>],
     quickSearch |-> Undef]

\* ---------------------------------------------------------------------
\* Browser: state of the pages
\* ---------------------------------------------------------------------

Pages == {"home", "list", "new", "show", "edit"}

\* useState initial values of a page component; fresh: the mount effect
\* (loadData) has not run yet
NewView(page) ==
    [loading |-> page \in {"list", "show", "edit"}, rows |-> {},
     patient |-> NoObj, error |-> FALSE,
     fresh |-> page \in {"list", "show", "edit"}]

\* PatientCreate: INITIAL_FORM_VALUES
INITIAL_FORM_VALUES == [gender |-> S_unknown]

\* fn is the data-layer function, who the handler that awaits it, data its
\* data argument, body the request body, got the response payload;
\* status 0: no response.  live: the component that made the call is
\* still mounted
\* query: the search parameters of the URL of a getMany
\* out: the patient a createOne or updateOne called on its own returned
IdleCall == [fn |-> "none", who |-> "none", pc |-> "idle", id |-> 0,
             method |-> "GET", op |-> "", data |-> NoObj, body |-> NoObj,
             status |-> 0, got |-> NoObj, live |-> FALSE, query |-> NoObj,
             out |-> NoObj]

NoNotice == [severity |-> "none", text |-> "", reason |-> NoObj]

\* from is the page whose handler awaits the dialog, live whether that
\* page is still mounted; answer (history) is what the last dialog resolved
\* with
NoDialog == [id |-> 0, from |-> "", live |-> FALSE, answer |-> "none"]

\* neither getEntries nor getSnapshot has been called
NoReturn == [by |-> "none", val |-> <<>>]

\* validate has not been called
NotValidated == [done |-> FALSE, p |-> NoObj, issues |-> <<>>]

UiInit ==
    /\ route = [page |-> "home", id |-> 0]
    /\ view = NewView("home")
    /\ form = NoObj
    /\ errors = NoObj
    /\ dialog = NoDialog
    /\ calls = [k \in CallSlots |-> IdleCall]
    /\ log = <<>>
    /\ notice = NoNotice
    /\ sent = 0
    /\ validated = NotValidated
    /\ listeners = <<>>
    /\ subs = <<>>
    /\ hist = <<>>
    /\ ret = NoReturn

\* ---------------------------------------------------------------------
\* Initial state
\* ---------------------------------------------------------------------

\* started is history: the clock when the cycle began
\* owner is the client whose POST /api/sync awaits the cycle, 0 for a cycle
\* started fire-and-forget (timer, stale list read)
\* count is syncedCount: the resources upserted so far
\* last is history: how the last cycle of the slot ended
IdleCycle == [pc |-> "idle", W |-> Null, started |-> 0, next |-> <<>>,
              buf |-> <<>>, owner |-> 0, count |-> 0, last |-> "none"]

\* val is the resource version carried by the request: the one the remote
\* returned, the one read from the store, or (history) for a completed
\* delete the row it removed.
\* hit and contacted are history: the lookup in the store found a row, a
\* call to the remote was made.
\* rw is history: "none", or for a point read that directly follows this
\* client's own successful write of the same id, whether the lookup in the
\* store showed that write ("reflects") or not ("missed")
\* count is the number of rows a list answer holds, or the syncedCount of
\* a sync answer (whose val is lastSyncTime)
\* busy is history: a POST /api/sync found the guard set
\* bg is history: a list request started a background sync
IdleReq == [op |-> "none", id |-> 0, pc |-> "idle", val |-> 0, res |-> "none",
            hit |-> FALSE, contacted |-> FALSE, rw |-> "none", count |-> 0,
            busy |-> FALSE, bg |-> FALSE]

Init ==
    /\ now = 1
    /\ remote = [i \in Ids |-> 0]
    /\ assigned = {}
    /\ store = [i \in Ids |-> 0]
    /\ watermark = Null
    /\ isSyncing = FALSE
    /\ cyc = [s \in Slots |-> IdleCycle]
    /\ req = [c \in Clients |-> IdleReq]
    /\ returned = {}
    /\ synced = {}
    /\ UiInit

\* ---------------------------------------------------------------------
\* Clock and other users of the FHIR server
\* ---------------------------------------------------------------------

Tick ==
    /\ now < MaxTime
    /\ now' = now + 1
    /\ UNCHANGED <<remote, assigned, store, watermark, isSyncing, cyc, req,
                   returned, synced>>
    /\ UNCHANGED uiVars

\* another client of the FHIR server creates or modifies a resource
OtherWrite(id) ==
    /\ now < MaxTime
    /\ remote[id] # 0 \/ id \notin assigned
    /\ now' = now + 1
    /\ remote' = [remote EXCEPT ![id] = now + 1]
    /\ assigned' = assigned \cup {id}
    /\ synced' = synced \ {id}
    /\ UNCHANGED <<store, watermark, isSyncing, cyc, req, returned>>
    /\ UNCHANGED uiVars

\* ---------------------------------------------------------------------
\* Sync engine: syncPatients() and the isSyncing guard
\* ---------------------------------------------------------------------

Running == {s \in Slots : cyc[s].pc # "idle"}

\* isSyncing = true; syncPatients() step 1: read last_sync_time.
\* o is the client that awaits the result, 0 when nobody does
StartCycle(o) ==
    \E s \in Slots :
        /\ cyc[s].pc = "idle"
        /\ \A s2 \in Slots : s2 < s => cyc[s2].pc # "idle"
        /\ isSyncing' = TRUE
        /\ cyc' = [cyc EXCEPT ![s] = [IdleCycle EXCEPT !.pc = "query",
                       !.W = watermark, !.started = now, !.owner = o]]

\* (variant: a trigger that does not look at the flag)
TrySync_NoGuard ==
    StartCycle(0)

\* the guard and step 1: if a sync is running the trigger does nothing,
\* otherwise the flag is set and last_sync_time is read
TrySync ==
    IF isSyncing
    THEN UNCHANGED <<isSyncing, cyc>>
    ELSE StartCycle(0)

\* setInterval(SYNC_INTERVAL_MS) and the run on startup
TimerTrigger ==
    /\ TrySync
    /\ UNCHANGED <<now, remote, assigned, store, watermark, req, returned,
                   synced>>
    /\ UNCHANGED uiVars

\* the isSyncing flag is cleared when a cycle ends in an error
ReleaseOnError(f) == FALSE

\* now - last_sync_time > CACHE_STALE_MS (a NULL last_sync_time counts as 0)
Stale == now - watermark > CACHE_STALE_MS

\* step 2: the first request, with the filter built from the watermark
\* read in step 1; the server fixes the result set and returns its first
\* page together with the "next" link
SyncQuery(s) ==
    /\ cyc[s].pc = "query"
    /\ LET all == SortDesc(Matching(cyc[s].W))
       IN  /\ cyc' = [cyc EXCEPT ![s].pc = "paging",
                                 ![s].buf = Take(all, PageSize),
                                 ![s].next = Drop(all, PageSize)]
           /\ returned' = returned \cup {all[k] : k \in 1..(IF Len(all) < PageSize THEN Len(all) ELSE PageSize)}
    /\ UNCHANGED <<now, remote, assigned, store, watermark, isSyncing, req, synced>>
    /\ UNCHANGED uiVars

\* (variant: last_sync_time is written after every page)
SyncNextPage_Checkpoint(s) ==
    /\ cyc[s].pc = "paging"
    /\ cyc[s].next # <<>>
    /\ cyc' = [cyc EXCEPT ![s].buf = cyc[s].buf \o Take(cyc[s].next, PageSize),
                          ![s].next = Drop(cyc[s].next, PageSize)]
    /\ returned' = returned \cup {cyc[s].next[k] : k \in 1..(IF Len(cyc[s].next) < PageSize THEN Len(cyc[s].next) ELSE PageSize)}
    /\ watermark' = now
    /\ UNCHANGED <<now, remote, assigned, store, isSyncing, req, synced>>
    /\ UNCHANGED uiVars

\* step 3: follow the "next" link
SyncNextPage(s) ==
    /\ cyc[s].pc = "paging"
    /\ cyc[s].next # <<>>
    /\ cyc' = [cyc EXCEPT ![s].buf = cyc[s].buf \o Take(cyc[s].next, PageSize),
                          ![s].next = Drop(cyc[s].next, PageSize)]
    /\ returned' = returned \cup {cyc[s].next[k] : k \in 1..(IF Len(cyc[s].next) < PageSize THEN Len(cyc[s].next) ELSE PageSize)}
    /\ UNCHANGED <<now, remote, assigned, store, watermark, isSyncing, req, synced>>
    /\ UNCHANGED uiVars

\* step 4: UPSERT one fetched resource into patients
SyncUpsert(s) ==
    /\ cyc[s].pc = "paging"
    /\ cyc[s].buf # <<>>
    /\ LET r == Head(cyc[s].buf)
       IN  /\ store' = Upsert(store, r[1], r[2])
           /\ synced' = IF remote[r[1]] = r[2] THEN synced \cup {r[1]} ELSE synced
    /\ cyc' = [cyc EXCEPT ![s].buf = Tail(cyc[s].buf),
                          ![s].count = cyc[s].count + 1]
    /\ UNCHANGED <<now, remote, assigned, watermark, isSyncing, req, returned>>
    /\ UNCHANGED uiVars

\* the outcome of cycle s goes to the POST /api/sync that awaits it:
\* { syncedCount, lastSyncTime } or the error; a fire-and-forget cycle has
\* nobody to answer (.catch(console.error))
Reply(s, res, w) ==
    req' = IF cyc[s].owner = 0 THEN req
           ELSE [req EXCEPT ![cyc[s].owner].pc = "done",
                            ![cyc[s].owner].res = res,
                            ![cyc[s].owner].val = w,
                            ![cyc[s].owner].count =
                                IF res = "ok" THEN cyc[s].count ELSE 0]

\* (variant: last_sync_time is taken from the newest row of patients,
\* SELECT max(last_updated), NULL for an empty table)
SyncFinish_NewestRow(s) ==
    /\ cyc[s].pc = "paging"
    /\ cyc[s].next = <<>>
    /\ cyc[s].buf = <<>>
    /\ watermark' = (CHOOSE m \in {store[i] : i \in Ids} :
                        \A i \in Ids : store[i] <= m)
    /\ isSyncing' = FALSE
    /\ cyc' = [cyc EXCEPT ![s] = [IdleCycle EXCEPT !.last = "ok"]]
    /\ Reply(s, "ok", watermark')
    /\ UNCHANGED <<now, remote, assigned, store, returned, synced>>
    /\ UNCHANGED uiVars

\* (variant: the cycle ends with a reconciliation pass that drops the rows
\* of resources the remote no longer has)
SyncFinish_Prune(s) ==
    /\ cyc[s].pc = "paging"
    /\ cyc[s].next = <<>>
    /\ cyc[s].buf = <<>>
    /\ watermark' = now
    /\ isSyncing' = FALSE
    /\ cyc' = [cyc EXCEPT ![s] = [IdleCycle EXCEPT !.last = "ok"]]
    /\ store' = [i \in Ids |-> IF remote[i] = 0 THEN 0 ELSE store[i]]
    /\ Reply(s, "ok", now)
    /\ UNCHANGED <<now, remote, assigned, returned, synced>>
    /\ UNCHANGED uiVars

\* steps 5 and 6: UPDATE sync_state SET last_sync_time = NOW(), return
SyncFinish(s) ==
    /\ cyc[s].pc = "paging"
    /\ cyc[s].next = <<>>
    /\ cyc[s].buf = <<>>
    /\ watermark' = now
    /\ isSyncing' = FALSE
    /\ cyc' = [cyc EXCEPT ![s] = [IdleCycle EXCEPT !.last = "ok"]]
    /\ Reply(s, "ok", now)
    /\ UNCHANGED <<now, remote, assigned, store, returned, synced>>
    /\ UNCHANGED uiVars

\* (variant: last_sync_time is written in a finally block)
SyncFail_AdvancesWatermark(s) ==
    /\ cyc[s].pc \in {"query", "paging"}
    /\ isSyncing' = ReleaseOnError(isSyncing)
    /\ cyc' = [cyc EXCEPT ![s] = [IdleCycle EXCEPT !.last = "error"]]
    /\ watermark' = now
    /\ Reply(s, "error", 0)
    /\ UNCHANGED <<now, remote, assigned, store, returned, synced>>
    /\ UNCHANGED uiVars

\* (variant: a cycle that fails takes its upserts back)
SyncFail_Rollback(s) ==
    /\ cyc[s].pc \in {"query", "paging"}
    /\ isSyncing' = ReleaseOnError(isSyncing)
    /\ cyc' = [cyc EXCEPT ![s] = [IdleCycle EXCEPT !.last = "error"]]
    /\ store' = [i \in Ids |-> IF i \in synced THEN 0 ELSE store[i]]
    /\ Reply(s, "error", 0)
    /\ UNCHANGED <<now, remote, assigned, watermark, returned, synced>>
    /\ UNCHANGED uiVars

\* (variant: the flag is reset only at the end of a successful cycle)
SyncFail_KeepsFlag(s) ==
    /\ cyc[s].pc \in {"query", "paging"}
    /\ cyc' = [cyc EXCEPT ![s] = [IdleCycle EXCEPT !.last = "error"]]
    /\ Reply(s, "error", 0)
    /\ UNCHANGED <<now, remote, assigned, store, watermark, isSyncing,
                   returned, synced>>
    /\ UNCHANGED uiVars

\* a request of step 2 or 3 or a statement of step 4 or 5 fails: the rest
\* of syncPatients() is not run
SyncFail(s) ==
    /\ cyc[s].pc \in {"query", "paging"}
    /\ isSyncing' = ReleaseOnError(isSyncing)
    /\ cyc' = [cyc EXCEPT ![s] = [IdleCycle EXCEPT !.last = "error"]]
    /\ Reply(s, "error", 0)
    /\ UNCHANGED <<now, remote, assigned, store, watermark, returned, synced>>
    /\ UNCHANGED uiVars

\* ---------------------------------------------------------------------
\* Express API endpoints (the Router)
\* ---------------------------------------------------------------------

Writes == {"create", "update", "delete"}

\* client c has no request in flight (its last response, if any, is kept)
Free(c) == req[c].pc \in {"idle", "done"}

\* POST /Patient, forwarded to FHIR, which succeeds and assigns an id
RouterCreate(c) ==
    /\ Free(c)
    /\ now < MaxTime
    /\ \E id \in Ids \ assigned :
        /\ \A j \in Ids \ assigned : id <= j
        /\ now' = now + 1
        /\ remote' = [remote EXCEPT ![id] = now + 1]
        /\ assigned' = assigned \cup {id}
        /\ returned' = returned \cup {<<id, now + 1>>}
        /\ req' = [req EXCEPT ![c] = [IdleReq EXCEPT !.op = "create", !.id = id,
                        !.pc = "remoteOk", !.val = now + 1, !.contacted = TRUE]]
    /\ UNCHANGED <<store, watermark, isSyncing, cyc, synced>>
    /\ UNCHANGED uiVars

\* PUT /Patient/:id, forwarded to FHIR, which succeeds
RouterUpdate(c, id) ==
    /\ Free(c)
    /\ now < MaxTime
    /\ remote[id] # 0
    /\ now' = now + 1
    /\ remote' = [remote EXCEPT ![id] = now + 1]
    /\ returned' = returned \cup {<<id, now + 1>>}
    /\ req' = [req EXCEPT ![c] = [IdleReq EXCEPT !.op = "update", !.id = id,
                    !.pc = "remoteOk", !.val = now + 1, !.contacted = TRUE]]
    /\ synced' = synced \ {id}
    /\ UNCHANGED <<assigned, store, watermark, isSyncing, cyc>>
    /\ UNCHANGED uiVars

\* DELETE /Patient/:id, forwarded to FHIR, which succeeds
RouterDelete(c, id) ==
    /\ Free(c)
    /\ id \in assigned
    /\ remote' = [remote EXCEPT ![id] = 0]
    /\ req' = [req EXCEPT ![c] = [IdleReq EXCEPT !.op = "delete", !.id = id,
                    !.pc = "remoteOk", !.contacted = TRUE]]
    /\ synced' = synced \ {id}
    /\ UNCHANGED <<now, assigned, store, watermark, isSyncing, cyc, returned>>
    /\ UNCHANGED uiVars

\* (variant: the local write is made before the remote call, and stays
\* when that call fails)
RouterWriteFail_LocalFirst(c, op) ==
    /\ Free(c)
    /\ op \in Writes
    /\ \E id \in Ids :
        store' = IF op = "delete" THEN DeleteRow(store, id)
                 ELSE Upsert(store, id, now)
    /\ req' = [req EXCEPT ![c] = [IdleReq EXCEPT !.op = op,
                    !.pc = "done", !.res = "error", !.contacted = TRUE]]
    /\ UNCHANGED <<now, remote, assigned, watermark, isSyncing, cyc,
                   returned, synced>>
    /\ UNCHANGED uiVars

\* the forwarded POST, PUT or DELETE fails (network error or non-2xx):
\* the error is returned and nothing else is done
RouterWriteFail(c, op) ==
    /\ Free(c)
    /\ op \in Writes
    /\ req' = [req EXCEPT ![c] = [IdleReq EXCEPT !.op = op,
                    !.pc = "done", !.res = "error", !.contacted = TRUE]]
    /\ UNCHANGED <<now, remote, assigned, store, watermark, isSyncing, cyc,
                   returned, synced>>
    /\ UNCHANGED uiVars

\* "on success": upsert the returned resource, or DELETE FROM patients
RouterApply(c) ==
    /\ req[c].pc = "remoteOk"
    /\ store' = IF req[c].op = "delete"
                THEN DeleteRow(store, req[c].id)
                ELSE Upsert(store, req[c].id, req[c].val)
    /\ req' = [req EXCEPT ![c].pc = "done", ![c].res = "ok",
                    ![c].val = IF req[c].op = "delete"
                               THEN GetRow(store, req[c].id) ELSE req[c].val]
    /\ UNCHANGED <<now, remote, assigned, watermark, isSyncing, cyc, returned, synced>>
    /\ UNCHANGED uiVars

\* (variant: the lookup in the DB is skipped and FHIR is always asked)
RouterGet_AlwaysRemote(c, id) ==
    /\ Free(c)
    /\ req' = [req EXCEPT ![c] = [IdleReq EXCEPT !.op = "read", !.id = id,
                    !.pc = "miss"]]
    /\ UNCHANGED <<now, remote, assigned, store, watermark, isSyncing, cyc,
                   returned, synced>>
    /\ UNCHANGED uiVars

\* GET /Patient/:id, "serve from DB": a row is returned without any call
\* to FHIR; the request may directly follow this client's successful write
RouterGet(c, id) ==
    /\ Free(c)
    /\ LET row == GetRow(store, id)
           after == req[c].op \in Writes /\ req[c].res = "ok" /\ req[c].id = id
           want == IF req[c].op = "delete" THEN 0 ELSE req[c].val
           base == [IdleReq EXCEPT !.op = "read", !.id = id,
                        !.rw = IF ~after THEN "none"
                               ELSE IF row = want THEN "reflects"
                               ELSE "missed"]
       IN  req' = [req EXCEPT ![c] =
                IF row # 0
                THEN [base EXCEPT !.pc = "done", !.res = "ok", !.hit = TRUE,
                                  !.val = row]
                ELSE [base EXCEPT !.pc = "miss"]]
    /\ UNCHANGED <<now, remote, assigned, store, watermark, isSyncing, cyc,
                   returned, synced>>
    /\ UNCHANGED uiVars

\* "fall back to FHIR on cache miss": GET [base]/Patient/:id
RouterGetRemote(c) ==
    /\ req[c].pc = "miss"
    /\ IF remote[req[c].id] # 0
       THEN /\ req' = [req EXCEPT ![c].pc = "fetched",
                            ![c].val = remote[req[c].id],
                            ![c].contacted = TRUE]
            /\ returned' = returned \cup {<<req[c].id, remote[req[c].id]>>}
       ELSE /\ req' = [req EXCEPT ![c].pc = "done", ![c].res = "notfound",
                            ![c].contacted = TRUE]
            /\ UNCHANGED returned
    /\ UNCHANGED <<now, remote, assigned, store, watermark, isSyncing, cyc,
                   synced>>
    /\ UNCHANGED uiVars

\* the fallback request fails
RouterGetFail(c) ==
    /\ req[c].pc = "miss"
    /\ req' = [req EXCEPT ![c].pc = "done", ![c].res = "error",
                    ![c].contacted = TRUE]
    /\ UNCHANGED <<now, remote, assigned, store, watermark, isSyncing, cyc,
                   returned, synced>>
    /\ UNCHANGED uiVars

\* the resource found remotely is upserted before it is returned
RouterGetRepair(c) ==
    /\ req[c].pc = "fetched"
    /\ store' = Upsert(store, req[c].id, req[c].val)
    /\ req' = [req EXCEPT ![c].pc = "done", ![c].res = "ok"]
    /\ UNCHANGED <<now, remote, assigned, watermark, isSyncing, cyc, returned, synced>>
    /\ UNCHANGED uiVars

\* POST /api/sync: the request goes through the guard like every trigger.
\* When a cycle is running it is turned away at once; otherwise it starts
\* a cycle and awaits its result
ManualTrigger(c) ==
    /\ Free(c)
    /\ IF isSyncing
       THEN /\ req' = [req EXCEPT ![c] = [IdleReq EXCEPT !.op = "sync",
                            !.pc = "done", !.res = "skipped", !.busy = TRUE]]
            /\ UNCHANGED <<isSyncing, cyc>>
       ELSE /\ req' = [req EXCEPT ![c] = [IdleReq EXCEPT !.op = "sync",
                            !.pc = "syncing"]]
            /\ StartCycle(c)
    /\ UNCHANGED <<now, remote, assigned, store, watermark, returned,
                   synced>>
    /\ UNCHANGED uiVars

\* (variant: the list handler awaits the sync it triggers and answers
\* with its outcome)
RouterList_AwaitsSync(c) ==
    /\ Free(c)
    /\ IF Stale /\ ~isSyncing
       THEN /\ req' = [req EXCEPT ![c] = [IdleReq EXCEPT !.op = "list",
                            !.pc = "syncing"]]
            /\ StartCycle(c)
       ELSE /\ req' = [req EXCEPT ![c] = [IdleReq EXCEPT !.op = "list",
                            !.pc = "done", !.res = "ok",
                            !.count = Cardinality({i \in Ids : store[i] # 0})]]
            /\ UNCHANGED <<isSyncing, cyc>>
    /\ UNCHANGED <<now, remote, assigned, store, watermark, returned,
                   synced>>
    /\ UNCHANGED uiVars

\* (variant: every list request that finds no sync running triggers one)
RouterList_NoStaleCheck(c) ==
    /\ Free(c)
    /\ req' = [req EXCEPT ![c] = [IdleReq EXCEPT !.op = "list", !.pc = "done",
                    !.res = "ok",
                    !.count = Cardinality({i \in Ids : store[i] # 0}),
                    !.bg = ~isSyncing]]
    /\ TrySync
    /\ UNCHANGED <<now, remote, assigned, store, watermark, returned,
                   synced>>
    /\ UNCHANGED uiVars

\* GET /Patient: served from the DB; a background sync is triggered if the
\* cache is stale and no sync is running
RouterList(c) ==
    /\ Free(c)
    /\ req' = [req EXCEPT ![c] = [IdleReq EXCEPT !.op = "list", !.pc = "done",
                    !.res = "ok",
                    !.count = Cardinality({i \in Ids : store[i] # 0}),
                    !.bg = (Stale /\ ~isSyncing)]]
    /\ IF Stale /\ ~isSyncing
       THEN TrySync
       ELSE UNCHANGED <<isSyncing, cyc>>
    /\ UNCHANGED <<now, remote, assigned, store, watermark, returned,
                   synced>>
    /\ UNCHANGED uiVars

Next ==
    \/ Tick
    \/ \E i \in Ids : OtherWrite(i)
    \/ TimerTrigger
    \/ \E s \in Slots : SyncQuery(s)
    \/ \E s \in Slots : SyncNextPage(s)
    \/ \E s \in Slots : SyncUpsert(s)
    \/ \E s \in Slots : SyncFinish(s)
    \/ \E s \in Slots : SyncFail(s)
    \/ \E c \in Clients : RouterCreate(c)
    \/ \E c \in Clients, i \in Ids : RouterUpdate(c, i)
    \/ \E c \in Clients, i \in Ids : RouterDelete(c, i)
    \/ \E c \in Clients, op \in Writes : RouterWriteFail(c, op)
    \/ \E c \in Clients : RouterApply(c)
    \/ \E c \in Clients, i \in Ids : RouterGet(c, i)
    \/ \E c \in Clients : RouterGetRemote(c)
    \/ \E c \in Clients : RouterGetFail(c)
    \/ \E c \in Clients : RouterGetRepair(c)
    \/ \E c \in Clients : RouterList(c)
    \/ \E c \in Clients : ManualTrigger(c)

Spec == Init /\ [][Next]_vars

\* The scheduling the server gives: setInterval keeps firing the timer
\* trigger, and a running syncPatients() or request handler takes its next
\* step unless a request of it fails.  Whether cycles complete is not
\* promised: a request to the FHIR server may fail every time.
LiveSpec ==
    /\ Spec
    /\ WF_vars(TimerTrigger)
    /\ \A s \in Slots : /\ WF_vars(SyncQuery(s))
                        /\ WF_vars(SyncNextPage(s))
                        /\ WF_vars(SyncUpsert(s))
                        /\ WF_vars(SyncFinish(s))
    /\ \A c \in Clients : /\ WF_vars(RouterApply(c))
                          /\ WF_vars(RouterGetRepair(c))

\* ---------------------------------------------------------------------
\* Browser: HTTP, loggedFetch and the API log
\* ---------------------------------------------------------------------

\* the statuses the FHIR server answers with
Statuses == {200, 500}

Ok(st) == st \in 200..299

StatusText(st) ==
    CASE st = 200 -> "OK"
      [] st = 404 -> "Not Found"
      [] st = 500 -> "Internal Server Error"
      [] OTHER -> ""

\* the ApiLogEntry of a response (id and timestamp are fresh values, the
\* duration is a measured time: they are left out)
Entry(c, st) ==
    [method |-> c.method, url |-> c.id, status |-> st,
     statusText |-> StatusText(st), ok |-> Ok(st), operation |-> c.op]

\* a request can be sent: the bound on requests is not used up
CanSend == sent < MaxReq

FreeSlot(k) ==
    /\ calls[k].pc = "idle"
    /\ \A j \in CallSlots : j < k => calls[j].pc # "idle"

\* the call of data-layer function fn up to its loggedFetch
StartCall(fn, who, id, method, op, data, body, live) ==
    [IdleCall EXCEPT !.fn = fn, !.who = who, !.pc = "fetch", !.id = id,
                     !.method = method, !.op = op, !.data = data,
                     !.body = body, !.live = live]

\* new Error(`Failed to ...: ${response.status} ${response.statusText}`)
FailText(c) ==
    CASE c.fn = "getMany" -> "Failed to fetch patients"
      [] c.fn = "getOne" -> "Failed to fetch patient"
      [] c.fn = "createOne" -> "Failed to create patient"
      [] c.fn = "updateOne" /\ c.method = "GET" -> "Failed to fetch patient for update"
      [] c.fn = "updateOne" /\ c.method = "PUT" -> "Failed to update patient"
      [] c.fn = "deleteOne" -> "Failed to delete patient"

\* what the server can send with a 2xx answer to the request of call c
Payloads(c) ==
    CASE c.fn = "getMany" -> {{}, PIds}
      [] c.method = "GET" -> Resources(c.id)
      [] c.method = "POST" -> {Merge(c.body, [id |-> i]) : i \in PIds}
      [] c.method = "PUT" -> {c.body}
      [] OTHER -> {NoObj}

\* listeners.forEach((fn) => fn()): n of a subscription is the number of
\* calls its listener got from this forEach for its entries in the list
Notify ==
    /\ subs' = [j \in DOMAIN subs |->
                  [subs[j] EXCEPT !.n = Cardinality(
                      {q \in DOMAIN listeners : listeners[q].sub = j})]]
    /\ UNCHANGED listeners

\* (variant: the new entry is put at the end of the list)
addEntry_OldestFirst(e) ==
    /\ log' = log \o <<e>>
    /\ hist' = Append(hist, [op |-> "add", entry |-> e])
    /\ Notify

\* addEntry(entry)
addEntry(e) ==
    /\ log' = <<e>> \o log
    /\ hist' = Append(hist, [op |-> "add", entry |-> e])
    /\ Notify

\* loggedFetch: fetch resolves with a response of status st, and addEntry
\* puts the entry in front of the log
Settle(k, st) ==
    /\ calls[k].pc = "fetch"
    /\ \E g \in (IF Ok(st) THEN Payloads(calls[k]) ELSE {NoObj}) :
          calls' = [calls EXCEPT ![k].pc = "settled", ![k].status = st,
                                 ![k].got = g]
    /\ addEntry(Entry(calls[k], st))
    /\ UNCHANGED <<route, view, form, errors, dialog, notice, sent>>
    /\ UNCHANGED <<validated, ret>>
    /\ UNCHANGED srvVars

\* loggedFetch: fetch rejects (no response: network failure, CORS, abort);
\* the await throws and addEntry is not reached
Reject(k) ==
    /\ calls[k].pc = "fetch"
    /\ calls' = [calls EXCEPT ![k].pc = "rejected"]
    /\ UNCHANGED <<route, view, form, errors, dialog, notice, log, sent>>
    /\ UNCHANGED offPage

\* ---------------------------------------------------------------------
\* Browser: pages and their handlers
\* ---------------------------------------------------------------------

Modal == dialog.id # 0

\* a call awaited by a handler of the set W is in flight
Busy(W) == \E k \in CallSlots : calls[k].pc # "idle" /\ calls[k].who \in W

\* the edit form is rendered: the patient is loaded
FormShown ==
    \/ route.page = "new"
    \/ /\ route.page = "edit" /\ ~view.loading /\ ~view.error
       /\ DOMAIN view.patient # {}

\* the components of the old page are unmounted: what their calls and
\* their dialog set later is lost
Unmount(cs) == [k \in CallSlots |-> [cs[k] EXCEPT !.live = FALSE]]

\* router.push(page): the page component is mounted, unless it is shown
\* already; cs is the new state of the calls
Push(page, id, cs) ==
    IF route = [page |-> page, id |-> id]
    THEN /\ calls' = cs
         /\ UNCHANGED <<route, view, form, errors, dialog>>
    ELSE /\ route' = [page |-> page, id |-> id]
         /\ view' = NewView(page)
         /\ form' = IF page = "new" THEN INITIAL_FORM_VALUES ELSE NoObj
         /\ errors' = NoObj
         /\ dialog' = [dialog EXCEPT !.live = FALSE]
         /\ calls' = Unmount(cs)

\* the user follows a link or a button to another page
Goto(page, id) ==
    /\ ~Modal
    /\ page # "home"
    /\ (id = 0) <=> (page \in {"list", "new"})
    /\ route # [page |-> page, id |-> id]
    /\ Push(page, id, calls)
    /\ UNCHANGED <<log, notice, sent>>
    /\ UNCHANGED offPage

\* useEffect(() => { loadData() }): setError(null), setIsLoading(true),
\* getMany / getOne
MountEffect ==
    /\ view.fresh
    /\ CanSend
    /\ \E k \in CallSlots :
        /\ FreeSlot(k)
        /\ calls' = [calls EXCEPT ![k] =
              IF route.page = "list"
              THEN [StartCall("getMany", "load", 0, "GET", "List Patients",
                              InitialListArgs, NoObj, TRUE)
                        EXCEPT !.query = getManyParams(InitialListArgs)]
              ELSE StartCall("getOne", "load", route.id, "GET", "Get Patient",
                             NoObj, NoObj, TRUE)]
    /\ view' = [view EXCEPT !.fresh = FALSE, !.error = FALSE, !.loading = TRUE]
    /\ sent' = sent + 1
    /\ UNCHANGED <<route, form, errors, dialog, log, notice>>
    /\ UNCHANGED offPage

\* handleFormFieldChange(name, value)
FieldChange(f, v) ==
    /\ ~Modal /\ FormShown
    /\ IF Has(form, f) THEN form[f] # v ELSE TRUE
    /\ LET newFormValues == Merge(form, [x \in {f} |-> v])
       IN  /\ form' = newFormValues
           /\ errors' = Merge(errors,
                  [x \in {f} |-> IssueFor(validate(newFormValues), f)])
    /\ UNCHANGED <<route, view, dialog, calls, log, notice, sent>>
    /\ UNCHANGED offPage

\* (variant: the form is submitted without looking at the issues)
SubmitCreate_NoValidation ==
    /\ ~Modal /\ route.page = "new"
    /\ ~Busy({"create"})
    /\ CanSend
    /\ errors' = NoObj
    /\ \E k \in CallSlots :
          /\ FreeSlot(k)
          /\ calls' = [calls EXCEPT ![k] =
                StartCall("createOne", "create", 0, "POST",
                          "Create Patient", form, patientToFhir(form), TRUE)]
    /\ sent' = sent + 1
    /\ UNCHANGED <<route, view, form, dialog, log, notice>>
    /\ UNCHANGED offPage

\* PatientCreate.handleFormSubmit up to the await of createOne; the submit
\* button is disabled while a submit is in progress
SubmitCreate ==
    /\ ~Modal /\ route.page = "new"
    /\ ~Busy({"create"})
    /\ LET issues == validate(form)
       IN  IF issues # <<>>
           THEN /\ errors' = ErrorsOf(issues)
                /\ UNCHANGED <<calls, sent>>
           ELSE /\ CanSend
                /\ sent' = sent + 1
                /\ errors' = NoObj
                /\ \E k \in CallSlots :
                      /\ FreeSlot(k)
                      /\ calls' = [calls EXCEPT ![k] =
                            StartCall("createOne", "create", 0, "POST",
                                      "Create Patient", form,
                                      patientToFhir(form), TRUE)]
    /\ UNCHANGED <<route, view, form, dialog, log, notice>>
    /\ UNCHANGED offPage

\* PatientEditForm.handleFormSubmit up to the await of updateOne, which
\* first fetches the existing resource
SubmitEdit ==
    /\ ~Modal /\ route.page = "edit" /\ FormShown
    /\ ~Busy({"edit"})
    /\ LET issues == validate(form)
       IN  IF issues # <<>>
           THEN /\ errors' = ErrorsOf(issues)
                /\ UNCHANGED <<calls, sent>>
           ELSE /\ CanSend
                /\ sent' = sent + 1
                /\ errors' = NoObj
                /\ \E k \in CallSlots :
                      /\ FreeSlot(k)
                      /\ calls' = [calls EXCEPT ![k] =
                            StartCall("updateOne", "edit", route.id, "GET",
                                      "Get Patient (for update)", form,
                                      NoObj, TRUE)]
    /\ UNCHANGED <<route, view, form, dialog, log, notice>>
    /\ UNCHANGED offPage

\* handleRowDelete(patient) / handlePatientDelete up to the await of
\* dialogs.confirm
DeleteClick(id) ==
    /\ ~Modal /\ ~view.fresh
    /\ ~Busy({"deleteList", "deleteShow"})
    /\ \/ route.page = "list" /\ id \in view.rows
       \/ /\ route.page = "show" /\ id = route.id
          /\ ~view.loading /\ ~view.error /\ DOMAIN view.patient # {}
    /\ dialog' = [id |-> id, from |-> route.page, live |-> TRUE,
                  answer |-> "none"]
    /\ UNCHANGED <<route, view, form, errors, calls, log, notice, sent>>
    /\ UNCHANGED offPage

\* (variant: the request is sent whatever the dialog resolves with)
DialogCancel_Deletes ==
    /\ Modal
    /\ CanSend
    /\ \E k \in CallSlots :
          /\ FreeSlot(k)
          /\ calls' = [calls EXCEPT ![k] =
                StartCall("deleteOne",
                          IF dialog.from = "list" THEN "deleteList" ELSE "deleteShow",
                          dialog.id, "DELETE", "Delete Patient", NoObj, NoObj,
                          dialog.live)]
    /\ dialog' = [NoDialog EXCEPT !.answer = "cancel"]
    /\ sent' = sent + 1
    /\ UNCHANGED <<route, view, form, errors, log, notice>>
    /\ UNCHANGED offPage

\* the dialog resolves with false
DialogCancel ==
    /\ Modal
    /\ dialog' = [NoDialog EXCEPT !.answer = "cancel"]
    /\ UNCHANGED <<route, view, form, errors, calls, log, notice, sent>>
    /\ UNCHANGED offPage

\* the dialog resolves with true: setIsLoading(true), deleteOne
DialogConfirm ==
    /\ Modal
    /\ CanSend
    /\ \E k \in CallSlots :
          /\ FreeSlot(k)
          /\ calls' = [calls EXCEPT ![k] =
                StartCall("deleteOne",
                          IF dialog.from = "list" THEN "deleteList" ELSE "deleteShow",
                          dialog.id, "DELETE", "Delete Patient", NoObj, NoObj,
                          dialog.live)]
    /\ view' = IF dialog.live THEN [view EXCEPT !.loading = TRUE] ELSE view
    /\ dialog' = [NoDialog EXCEPT !.answer = "confirm"]
    /\ sent' = sent + 1
    /\ UNCHANGED <<route, form, errors, log, notice>>
    /\ UNCHANGED offPage

\* ---------------------------------------------------------------------
\* Browser: a data-layer call continues after loggedFetch, and the handler
\* that awaits it continues when it returns or throws
\* ---------------------------------------------------------------------

Ended(c) == c.pc \in {"settled", "rejected"}

\* (variant: createOne, updateOne and deleteOne do not look at response.ok)
Failed_RejectOnly(c) ==
    \/ c.pc = "rejected"
    \/ ~Ok(c.status) /\ c.fn \in {"getMany", "getOne"}

\* the call throws: loggedFetch threw, or if (!response.ok) throw
Failed(c) == c.pc = "rejected" \/ ~Ok(c.status)

\* the Error thrown: the TypeError of fetch, or the Error of the data
\* layer with the response's status and statusText in its message
Err(c) ==
    IF c.pc = "rejected"
    THEN [what |-> "Failed to fetch", status |-> 0, statusText |-> ""]
    ELSE [what |-> FailText(c), status |-> c.status,
          statusText |-> StatusText(c.status)]

ErrorNotice(text, c) == [severity |-> "error", text |-> text, reason |-> Err(c)]

SuccessNotice(text) == [severity |-> "success", text |-> text, reason |-> NoObj]

\* updateOne after its GET: merge and PUT
UpdateSendPut(k) ==
    /\ Ended(calls[k]) /\ ~Failed(calls[k])
    /\ calls[k].fn = "updateOne" /\ calls[k].method = "GET"
    /\ CanSend
    /\ calls' = [calls EXCEPT ![k].pc = "fetch", ![k].method = "PUT",
                    ![k].op = "Update Patient", ![k].status = 0,
                    ![k].got = NoObj,
                    ![k].body = mergedResource(calls[k].got, calls[k].data,
                                               calls[k].id)]
    /\ sent' = sent + 1
    /\ UNCHANGED <<route, view, form, errors, dialog, log, notice>>
    /\ UNCHANGED offPage

\* loadData after getMany / getOne: setRowsState or setPatient, or
\* setError; then setIsLoading(false).  PatientEditForm takes the loaded
\* patient as its initial values
LoadDone(k) ==
    /\ Ended(calls[k]) /\ calls[k].who = "load"
    /\ calls' = [calls EXCEPT ![k] = IdleCall]
    /\ LET c == calls[k]
       IN  IF ~c.live
           THEN UNCHANGED <<view, form, errors>>
           ELSE IF Failed(c)
           THEN /\ view' = [view EXCEPT !.error = TRUE, !.loading = FALSE]
                /\ UNCHANGED <<form, errors>>
           ELSE IF c.fn = "getMany"
           THEN /\ view' = [view EXCEPT !.rows = c.got, !.loading = FALSE]
                /\ UNCHANGED <<form, errors>>
           ELSE /\ view' = [view EXCEPT !.patient = fhirToPatient(c.got),
                                        !.loading = FALSE]
                /\ IF route.page = "edit" /\ DOMAIN view.patient = {}
                   THEN form' = fhirToPatient(c.got) /\ errors' = NoObj
                   ELSE UNCHANGED <<form, errors>>
    /\ UNCHANGED <<route, dialog, log, notice, sent>>
    /\ UNCHANGED offPage

\* PatientCreate.handleFormSubmit after the await
CreateDone(k) ==
    /\ Ended(calls[k]) /\ calls[k].who = "create"
    /\ IF Failed(calls[k])
       THEN /\ notice' = ErrorNotice("Failed to create patient. Reason: ", calls[k])
            /\ calls' = [calls EXCEPT ![k] = IdleCall]
            /\ UNCHANGED <<route, view, form, errors, dialog>>
       ELSE /\ notice' = SuccessNotice("Patient created successfully.")
            /\ Push("list", 0, [calls EXCEPT ![k] = IdleCall])
    /\ UNCHANGED <<log, sent>>
    /\ UNCHANGED offPage

\* PatientEdit.handleSubmit (setPatient) and PatientEditForm.handleFormSubmit
\* after the await
EditDone(k) ==
    /\ Ended(calls[k]) /\ calls[k].who = "edit"
    /\ \/ Failed(calls[k])
       \/ calls[k].method = "PUT"
    /\ IF Failed(calls[k])
       THEN /\ notice' = ErrorNotice("Failed to edit patient. Reason: ", calls[k])
            /\ calls' = [calls EXCEPT ![k] = IdleCall]
            /\ UNCHANGED <<route, view, form, errors, dialog>>
       ELSE /\ notice' = SuccessNotice("Patient edited successfully.")
            /\ Push("list", 0, [calls EXCEPT ![k] = IdleCall])
    /\ UNCHANGED <<log, sent>>
    /\ UNCHANGED offPage

\* handleRowDelete after the await: on success the notification and
\* loadData() (not awaited), in both cases setIsLoading(false)
DeleteListDone(k) ==
    /\ Ended(calls[k]) /\ calls[k].who = "deleteList"
    /\ LET c == calls[k]
       IN  IF Failed(c)
           THEN /\ notice' = ErrorNotice("Failed to delete patient. Reason: ", c)
                /\ calls' = [calls EXCEPT ![k] = IdleCall]
                /\ UNCHANGED sent
                /\ view' = IF c.live THEN [view EXCEPT !.loading = FALSE]
                           ELSE view
           ELSE /\ CanSend
                /\ sent' = sent + 1
                /\ notice' = SuccessNotice("Patient deleted successfully.")
                /\ calls' = [calls EXCEPT ![k] =
                       [StartCall("getMany", "load", 0, "GET", "List Patients",
                                  InitialListArgs, NoObj, c.live)
                           EXCEPT !.query = getManyParams(InitialListArgs)]]
                /\ view' = IF c.live
                           THEN [view EXCEPT !.error = FALSE, !.loading = FALSE]
                           ELSE view
    /\ UNCHANGED <<route, form, errors, dialog, log>>
    /\ UNCHANGED offPage

\* handlePatientDelete after the await: on success router.push('/patients')
\* and the notification, in both cases setIsLoading(false)
DeleteShowDone(k) ==
    /\ Ended(calls[k]) /\ calls[k].who = "deleteShow"
    /\ LET c == calls[k]
       IN  IF Failed(c)
           THEN /\ notice' = ErrorNotice("Failed to delete patient. Reason: ", c)
                /\ calls' = [calls EXCEPT ![k] = IdleCall]
                /\ view' = IF c.live THEN [view EXCEPT !.loading = FALSE]
                           ELSE view
                /\ UNCHANGED <<route, form, errors, dialog>>
           ELSE /\ notice' = SuccessNotice("Patient deleted successfully.")
                /\ IF route = [page |-> "list", id |-> 0]
                   THEN /\ calls' = [calls EXCEPT ![k] = IdleCall]
                        /\ UNCHANGED <<route, view, form, errors, dialog>>
                   ELSE Push("list", 0, [calls EXCEPT ![k] = IdleCall])
    /\ UNCHANGED <<log, sent>>
    /\ UNCHANGED offPage

UiNext ==
    \/ \E pg \in Pages, i \in PIds \cup {0} : Goto(pg, i)
    \/ MountEffect
    \/ \E f \in Fields : \E v \in FieldValues(f) : FieldChange(f, v)
    \/ SubmitCreate
    \/ SubmitEdit
    \/ \E i \in PIds : DeleteClick(i)
    \/ DialogCancel
    \/ DialogConfirm
    \/ \E k \in CallSlots, st \in Statuses : Settle(k, st)
    \/ \E k \in CallSlots : Reject(k)
    \/ \E k \in CallSlots : UpdateSendPut(k)
    \/ \E k \in CallSlots : LoadDone(k)
    \/ \E k \in CallSlots : CreateDone(k)
    \/ \E k \in CallSlots : EditDone(k)
    \/ \E k \in CallSlots : DeleteListDone(k)
    \/ \E k \in CallSlots : DeleteShowDone(k)

UiSpec == Init /\ [][UiNext]_vars

\* ---------------------------------------------------------------------
\* The data layer called on its own: one call of validate or of updateOne
\* with any argument
\* ---------------------------------------------------------------------

\* the object without the properties that are undefined
Strip(c) == [f \in {g \in DOMAIN c : c[g] # Undef} |-> c[f]]

\* the patients validate is called with
Patients ==
    {Strip(c) : c \in
        [family : {Undef, <<>>, S_Doe},
         given : {Undef, <<>>, S_Jo},
         gender : {Undef, <<>>, S_male, S_female, S_other, S_unknown, S_robot},
         birthDate : {Undef, <<>>, BD_Good, BD_Bad, BD_Slash},
         phone : {Undef, <<>>, PH_Good, PH_Bad}]}

\* the data updateOne is called with (a Partial<Patient>)
Updates ==
    {Strip(c) : c \in
        [family : {Undef, S_Doe}, given : {Undef, <<>>, S_Jo},
         gender : {Undef, S_male}, birthDate : {Undef, BD_Good},
         phone : {Undef, <<>>, PH_Good}]}

\* the arguments getMany is called with
Queries ==
    [paginationModel : [page : {0, 2}, pageSize : {5, INITIAL_PAGE_SIZE}],
     sortModel : {<<>>, <<[field |-> "birthDate", sort |-> "desc"]>>,
                  <<[field |-> "name", sort |-> "asc"],
                    [field |-> "id", sort |-> "asc"],
                    [field |-> "phone", sort |-> "desc"]>>},
     filterModel : [items : {<<>>,
                             <<[field |-> "name", value |-> S_Doe]>>,
                             <<[field |-> "phone", value |-> <<"5", "5">>]>>,
                             <<[field |-> "gender", value |-> S_male],
                               [field |-> "family", value |-> <<>>],
                               [field |-> "id", value |-> S_Doe]>>}],
     quickSearch : {Undef, <<>>, <<" ">>, S_Jo, <<" ", "J", "o", " ">>,
                    <<"1", "2">>, <<" ", "1", "-", "2", "\t">>,
                    <<"1", "a">>}]

\* the data createOne is called with
Records ==
    [family : {S_Doe},
     given : {S_Jo, S_JoAnn, S_Jo_Ann, S_JoSp},
     gender : {S_male, S_robot},
     birthDate : {BD_Good},
     phone : {PH_Good, PH_Bad}]

\* nothing of the data layer has been called yet
Uncalled ==
    /\ ~validated.done /\ sent = 0
    /\ route.page = "home"

\* validate(p)
CallValidate(p) ==
    /\ Uncalled
    /\ validated' = [done |-> TRUE, p |-> p, issues |-> validate(p)]
    /\ UNCHANGED <<route, view, form, errors, dialog, calls, log, notice, sent>>
    /\ UNCHANGED logVars
    /\ UNCHANGED srvVars

\* updateOne(id, data) up to the loggedFetch of its GET
CallUpdateOne(id, data) ==
    /\ Uncalled
    /\ \E k \in CallSlots :
          /\ FreeSlot(k)
          /\ calls' = [calls EXCEPT ![k] =
                StartCall("updateOne", "caller", id, "GET",
                          "Get Patient (for update)", data, NoObj, TRUE)]
    /\ sent' = sent + 1
    /\ UNCHANGED <<route, view, form, errors, dialog, log, notice>>
    /\ UNCHANGED offPage

\* getMany(a) up to its loggedFetch
CallGetMany(a) ==
    /\ Uncalled
    /\ \E k \in CallSlots :
          /\ FreeSlot(k)
          /\ calls' = [calls EXCEPT ![k] =
                [StartCall("getMany", "caller", 0, "GET",
                           IF a.quickSearch \in {Undef, <<>>}
                           THEN "List Patients" ELSE "Search Patients",
                           a, NoObj, TRUE)
                    EXCEPT !.query = getManyParams(a)]]
    /\ sent' = sent + 1
    /\ UNCHANGED <<route, view, form, errors, dialog, log, notice>>
    /\ UNCHANGED offPage

\* createOne(data) up to its loggedFetch
CallCreateOne(data) ==
    /\ Uncalled
    /\ \E k \in CallSlots :
          /\ FreeSlot(k)
          /\ calls' = [calls EXCEPT ![k] =
                StartCall("createOne", "caller", 0, "POST", "Create Patient",
                          data, patientToFhir(data), TRUE)]
    /\ sent' = sent + 1
    /\ UNCHANGED <<route, view, form, errors, dialog, log, notice>>
    /\ UNCHANGED offPage

\* getMany returns the items or throws; createOne and updateOne return
\* fhirToPatient of the resource in the response or throw
Return(k) ==
    /\ Ended(calls[k]) /\ calls[k].who = "caller"
    /\ \/ Failed(calls[k])
       \/ calls[k].method = "PUT"
       \/ calls[k].fn \in {"getMany", "createOne"}
    /\ calls' = [calls EXCEPT
                    ![k].pc = IF Failed(calls[k]) THEN "threw" ELSE "returned",
                    ![k].out = IF ~Failed(calls[k])
                                  /\ calls[k].fn \in {"createOne", "updateOne"}
                               THEN fhirToPatient(calls[k].got)
                               ELSE NoObj]
    /\ UNCHANGED <<route, view, form, errors, dialog, log, notice, sent>>
    /\ UNCHANGED offPage

DataNext ==
    \/ \E p \in Patients : CallValidate(p)
    \/ \E i \in PIds : \E data \in Updates : CallUpdateOne(i, data)
    \/ \E a \in Queries : CallGetMany(a)
    \/ \E data \in Records : CallCreateOne(data)
    \/ \E k \in CallSlots, st \in Statuses : Settle(k, st)
    \/ \E k \in CallSlots : Reject(k)
    \/ \E k \in CallSlots : UpdateSendPut(k)
    \/ \E k \in CallSlots : Return(k)

DataSpec == Init /\ [][DataNext]_vars

\* ---------------------------------------------------------------------
\* The apiLog module called on its own
\* ---------------------------------------------------------------------

\* the entries addEntry is called with
LogEntries ==
    {Entry(StartCall("getOne", "caller", i, "GET", "Get Patient", NoObj,
                     NoObj, TRUE), 200) : i \in PIds}

\* the listener functions
Fns == 1..NumFns

\* a call of addEntry
CallAddEntry(e) ==
    /\ Len(hist) < MaxOps
    /\ addEntry(e)
    /\ UNCHANGED ret
    /\ UNCHANGED pageVars
    /\ UNCHANGED srvVars

\* clearEntries()
clearEntries ==
    /\ Len(hist) < MaxOps
    /\ log' = <<>>
    /\ hist' = Append(hist, [op |-> "clear", entry |-> NoObj])
    /\ Notify
    /\ UNCHANGED ret
    /\ UNCHANGED pageVars
    /\ UNCHANGED srvVars

\* getEntries()
getEntries ==
    /\ ret' = [by |-> "getEntries", val |-> log]
    /\ UNCHANGED <<log, listeners, subs, hist>>
    /\ UNCHANGED pageVars
    /\ UNCHANGED srvVars

\* getSnapshot()
getSnapshot ==
    /\ ret' = [by |-> "getSnapshot", val |-> log]
    /\ UNCHANGED <<log, listeners, subs, hist>>
    /\ UNCHANGED pageVars
    /\ UNCHANGED srvVars

\* subscribe(f): the listener is put at the end of the list
subscribe(f) ==
    /\ Len(subs) < MaxSubs
    /\ listeners' = Append(listeners, [fn |-> f, sub |-> Len(subs) + 1])
    /\ subs' = Append(subs, [fn |-> f, on |-> TRUE, n |-> 0])
    /\ UNCHANGED <<log, hist, ret>>
    /\ UNCHANGED pageVars
    /\ UNCHANGED srvVars

\* the function returned by the j-th call of subscribe is called:
\* listeners.filter((fn) => fn !== listener)
unsubscribe(j) ==
    /\ j \in DOMAIN subs
    /\ subs[j].on
    /\ listeners' = SelectSeq(listeners, LAMBDA l : l.fn # subs[j].fn)
    /\ subs' = [subs EXCEPT ![j].on = FALSE]
    /\ UNCHANGED <<log, hist, ret>>
    /\ UNCHANGED pageVars
    /\ UNCHANGED srvVars

LogNext ==
    \/ \E e \in LogEntries : CallAddEntry(e)
    \/ clearEntries
    \/ getEntries
    \/ getSnapshot
    \/ \E f \in Fns : subscribe(f)
    \/ \E j \in 1..MaxSubs : unsubscribe(j)

LogSpec == Init /\ [][LogNext]_vars

\* =====================================================================
\* Properties
\* =====================================================================

\* C1: at most one sync cycle runs at any time, and the flag is set exactly
\* while one runs; a manual trigger that finds a cycle running is answered
\* "skipped" at once, never with an error, and one that awaits a result
\* owns the running cycle, whatever the order of the triggers.
C1_AtMostOneSync ==
    /\ Cardinality(Running) <= 1
    /\ isSyncing <=> Running # {}
    /\ \A c \in Clients :
          /\ (req[c].op = "sync" /\ req[c].busy)
                => req[c].pc = "done" /\ req[c].res = "skipped"
          /\ req[c].pc = "syncing"
                => \E s \in Running : cyc[s].owner = c

\* a manual trigger was turned away while a cycle, started by another
\* trigger, was fetching
C1_Witness ==
    \E c \in Clients : /\ req[c].op = "sync" /\ req[c].res = "skipped"
                       /\ \E s \in Slots : cyc[s].pc = "paging"

\* C2: when the remote call of a create, update or delete fails, the error
\* is returned and the store is as it was before the call; the store is
\* only ever changed by a sync upsert or by a request whose remote call
\* has already succeeded.
C2_NoLocalWriteOnRemoteFailure ==
    [][ /\ \A c \in Clients :
              (req'[c] # req[c] /\ req'[c].op \in Writes /\ req'[c].res = "error")
              => store' = store /\ req'[c].pc = "done"
        /\ store' # store =>
              \/ \E s \in Slots : cyc[s].buf # <<>> /\ cyc'[s].buf = Tail(cyc[s].buf)
              \/ \E c \in Clients : /\ req[c].pc \in {"remoteOk", "fetched"}
                                    /\ req'[c].pc = "done"
      ]_vars

\* a delete failed remotely while the store held rows
C2_Witness ==
    \E c \in Clients : /\ req[c].op = "delete" /\ req[c].res = "error"
                       /\ \E i \in Ids : store[i] # 0

\* the steps that end a cycle: after the last upsert, or by an error
FinishStep(s) ==
    /\ cyc[s].pc # "idle" /\ cyc'[s].pc = "idle"
    /\ cyc'[s].last = "ok"

FailStep(s) ==
    /\ cyc[s].pc # "idle" /\ cyc'[s].pc = "idle"
    /\ cyc'[s].last = "error"

\* C3: a point read that directly follows this client's own successful
\* create, update or delete of the same id finds the written version in the
\* store (no row after a delete), also when a sync cycle that is in flight
\* upserts the id in between.
C3_ReadReflectsWrite ==
    \A c \in Clients : req[c].op = "read" => req[c].rw \in {"none", "reflects"}


\* C4: the step that ends a successful cycle comes after the last upsert,
\* writes the clock value of the cycle's start into the watermark and
\* leaves the engine idle.
C4_WatermarkIsCycleStart ==
    [][ \A s \in Slots : FinishStep(s) =>
            watermark' = cyc[s].started /\ ~isSyncing' ]_vars

\* C5: when a cycle completes successfully, every remote resource whose
\* last modification is not later than the start of that cycle has been
\* upserted by a sync cycle in its current version, and the watermark is
\* not below that modification.
C5_NoModificationSkipped ==
    [][ \A s \in Slots : FinishStep(s) =>
            \A i \in Ids : (remote[i] # 0 /\ remote[i] <= cyc[s].started)
                           => i \in synced' /\ watermark' >= remote[i] ]_vars

\* C6: the watermark never decreases (Null is below every time), so once
\* set it is never Null again.
C6_WatermarkMonotone ==
    [][ watermark' >= watermark ]_vars

\* a cycle is running that started from a watermark an earlier cycle wrote
C6_Witness ==
    \E s \in Slots : cyc[s].pc = "paging" /\ cyc[s].W # Null /\ watermark = cyc[s].W

\* C7: a cycle that ends by a failed request asks for no further page and
\* leaves the watermark as it found it; a cycle that starts reads that
\* watermark.
C7_FailureKeepsWatermark ==
    [][ \A s \in Slots :
          /\ FailStep(s) => /\ watermark' = watermark
                            /\ watermark = cyc[s].W
                            /\ cyc'[s].next = <<>> /\ cyc'[s].buf = <<>>
          /\ (cyc[s].pc = "idle" /\ cyc'[s].pc # "idle") => cyc'[s].W = watermark'
      ]_vars

\* no cycle ever completed, yet one upserted a resource and is gone: it
\* failed on a later page
C7_Witness ==
    watermark = Null /\ synced # {} /\ Running = {} /\ ~isSyncing

\* C8: every row is a version the remote returned for that id from a
\* successful call, for an id the remote assigned.
C8_CacheNeverLeads ==
    \A i \in Ids : store[i] # 0 => <<i, store[i]>> \in returned /\ i \in assigned

\* the cache lags: a row holds an older version than the remote
C8_Witness ==
    \E i \in Ids : store[i] # 0 /\ remote[i] # 0 /\ store[i] < remote[i]

C10_RowsLeaveOnlyByDelete ==
    [][ \A i \in Ids : (store[i] # 0 /\ store'[i] = 0) =>
            \E c \in Clients : /\ req[c].op = "delete" /\ req[c].pc = "remoteOk"
                               /\ req[c].id = i /\ req'[c].pc = "done" ]_vars

\* a DELETE removed a row
C10_Witness ==
    \E c \in Clients : /\ req[c].op = "delete" /\ req[c].res = "ok"
                       /\ req[c].val # 0 /\ store[req[c].id] = 0

\* C11: a list read is answered at once with the rows of the store, also
\* in the step in which it starts a sync cycle, and nothing that cycle does
\* later touches the answer: a fire-and-forget cycle that fails changes no
\* request.  A POST /api/sync that started a cycle is answered when that
\* cycle ends, with { syncedCount, lastSyncTime } or with the error.
C11_SyncOutcomeRouting ==
    [][ \A c \in Clients :
          /\ (req'[c] # req[c] /\ req'[c].op = "list") =>
                /\ Free(c) /\ store' = store
                /\ req'[c].pc = "done" /\ req'[c].res = "ok"
                /\ req'[c].count = Cardinality({i \in Ids : store[i] # 0})
          /\ \A s \in Slots :
                (cyc[s].owner = 0 /\ (FailStep(s) \/ FinishStep(s))) => req' = req
          /\ (req[c].pc = "syncing" /\ req'[c] # req[c]) =>
                /\ req[c].op = "sync" /\ req'[c].pc = "done"
                /\ \E s \in Slots :
                      /\ cyc[s].owner = c
                      /\ \/ /\ FinishStep(s) /\ req'[c].res = "ok"
                            /\ req'[c].val = watermark'
                            /\ req'[c].count = cyc[s].count
                         \/ FailStep(s) /\ req'[c].res = "error"
          /\ \A s \in Slots :
                (cyc[s].owner = c /\ (FailStep(s) \/ FinishStep(s)))
                    => req[c].pc = "syncing" /\ req'[c].pc = "done"
      ]_vars

\* a list read was answered with rows from a stale cache; the cycle that
\* ran after it failed (no cycle ever completed) and the answer stands
C11_Witness ==
    \E c \in Clients : /\ req[c].op = "list" /\ req[c].res = "ok"
                       /\ req[c].count >= 1
                       /\ watermark = Null /\ Running = {} /\ ~isSyncing
                       /\ synced # {}

\* every resource of the remote has a row with the remote's current version
Converged == \A i \in Ids : remote[i] # 0 => store[i] = remote[i]

\* C12: the remote changes only finitely often and nobody but the Router
\* deletes from it; if sync cycles complete successfully again and again,
\* then from some point on every resource of the remote is in the store in
\* its current version.
C12_EventualConvergence ==
    ([]<><<\E s \in Slots : SyncFinish(s)>>_vars) => <>[]Converged

NoCalls == \A k \in CallSlots : calls[k].pc = "idle"

\* C14: a submit of the create form or of the edit form whose values have
\* an issue sends no HTTP request (no call of the data layer is made),
\* records the message of the issue for each field that has one, and does
\* not navigate; a call of createOne or updateOne is made only with data
\* that validate has no issue with
C14_InvalidSubmitStaysLocal ==
    [][/\ ((SubmitCreate \/ SubmitEdit) /\ validate(form) # <<>>) =>
            /\ calls' = calls /\ sent' = sent /\ log' = log
            /\ route' = route /\ view' = view
            /\ \A j \in DOMAIN validate(form) :
                  LET f == validate(form)[j].path
                  IN  /\ Has(errors', f)
                      /\ errors'[f] = IssueFor(validate(form), f)
                      /\ errors'[f] # NoMsg
       /\ \A k \in CallSlots :
            (/\ calls[k].pc = "idle"
             /\ calls'[k].fn \in {"createOne", "updateOne"}) =>
                validate(calls'[k].data) = <<>>
      ]_vars

\* the edit form was submitted with empty fields: the messages are shown,
\* the only request so far is the one that loaded the patient
C14_Witness ==
    /\ route.page = "edit" /\ NoCalls
    /\ sent = 1 /\ Len(log) = 1
    /\ validate(form) # <<>>
    /\ errors = ErrorsOf(validate(form))
    /\ Has(errors, "family") /\ errors["family"] = "Family name is required"

\* C15: when the response to the request of createOne, updateOne (its GET
\* or its PUT) or deleteOne is not a success, the call throws an error
\* with the status code and the status text of the response; the handler
\* that awaits it shows the error with them, reports no success, does not
\* navigate, sends no further request (no PUT, no reload of the list) and
\* leaves the rows alone
C15_RemoteErrorShown ==
    [][\A k \in CallSlots :
         (/\ calls[k].pc = "settled" /\ ~Ok(calls[k].status)
          /\ calls[k].fn \in {"createOne", "updateOne", "deleteOne"}
          /\ calls'[k].pc # calls[k].pc) =>
            /\ Failed(calls[k])
            /\ notice'.severity = "error"
            /\ notice'.reason = [what |-> FailText(calls[k]),
                                 status |-> calls[k].status,
                                 statusText |-> StatusText(calls[k].status)]
            /\ calls'[k].pc = "idle"
            /\ route' = route /\ sent' = sent /\ log' = log
            /\ view'.rows = view.rows
      ]_vars

\* the list shows the error of a DELETE the server answered with 500
C15_Witness ==
    /\ route.page = "list" /\ NoCalls
    /\ notice.severity = "error"
    /\ notice.text = "Failed to delete patient. Reason: "
    /\ notice.reason = [what |-> "Failed to delete patient", status |-> 500,
                        statusText |-> "Internal Server Error"]
    /\ log # <<>> /\ log[1].method = "DELETE" /\ log[1].status = 500

\* C16: every HTTP request of the data layer is recorded in the API log:
\* when a request ends, with a response of any status or without a
\* response, exactly one entry with the method, the URL and the operation
\* name of the request is put in front of the log, before the call
\* continues
C16_EveryRequestLogged ==
    [][\A k \in CallSlots :
         (calls[k].pc = "fetch" /\ calls'[k].pc \in {"settled", "rejected"}) =>
            /\ Len(log') = Len(log) + 1
            /\ Tail(log') = log
            /\ log'[1].method = calls[k].method
            /\ log'[1].url = calls[k].id
            /\ log'[1].operation = calls[k].op
      ]_vars

\* the top-level elements of the resource that data supplies
SuppliedElements(data) ==
    (IF Has(data, "family") \/ Has(data, "given") THEN {"name"} ELSE {})
    \cup (IF Has(data, "gender") THEN {"gender"} ELSE {})
    \cup (IF Has(data, "birthDate") THEN {"birthDate"} ELSE {})
    \cup (IF Has(data, "phone") THEN {"telecom"} ELSE {})

\* C17: updateOne(id, data) sends its PUT only after its GET of the same
\* id got a success response, and sends nothing more when the GET fails;
\* the body of the PUT has resourceType 'Patient' and the id of the call,
\* the elements data supplies (name when family or given is supplied,
\* gender, birthDate, telecom) as built from data, and every other element
\* exactly as in the fetched resource
C17_UpdateMergesIntoFetched ==
    [][\A k \in CallSlots :
         /\ (calls[k].fn = "updateOne" /\ calls[k].method = "PUT") =>
               \E j \in DOMAIN log :
                  /\ log[j].method = "GET" /\ log[j].ok
                  /\ log[j].url = calls[k].id
         /\ (calls'[k].fn = "updateOne" /\ calls'[k].method = "PUT"
             /\ calls[k].method # "PUT") =>
               /\ calls[k].fn = "updateOne" /\ calls[k].method = "GET"
               /\ calls[k].pc = "settled" /\ Ok(calls[k].status)
               /\ calls'[k].id = calls[k].id
               /\ sent' = sent + 1
               /\ LET old == calls[k].got
                      data == calls[k].data
                      body == calls'[k].body
                      own == SuppliedElements(data) \cup {"resourceType", "id"}
                  IN  /\ Has(body, "resourceType") /\ body["resourceType"] = "Patient"
                      /\ Has(body, "id") /\ body["id"] = calls[k].id
                      /\ \A e \in SuppliedElements(data) :
                            Has(body, e) /\ body[e] = patientToFhir(data)[e]
                      /\ \A e \in (DOMAIN old \cup DOMAIN body) \ own :
                            Has(old, e) /\ Has(body, e) /\ body[e] = old[e]
         /\ (/\ calls[k].fn = "updateOne" /\ calls[k].method = "GET"
             /\ Ended(calls[k])
             /\ calls[k].pc = "rejected" \/ ~Ok(calls[k].status)
             /\ calls'[k] # calls[k]) =>
               /\ calls'[k].method # "PUT" /\ calls'[k].pc # "fetch"
               /\ sent' = sent
      ]_vars

\* the PUT of an update of the family name alone is in flight: the name is
\* the one built from data, the other elements are those fetched
C17_Witness ==
    \E k \in CallSlots :
        /\ calls[k].fn = "updateOne" /\ calls[k].method = "PUT"
        /\ calls[k].pc = "fetch"
        /\ DOMAIN calls[k].data = {"family"}
        /\ Has(calls[k].body, "meta") /\ Has(calls[k].body, "address")
        /\ calls[k].body["name"] =
              <<[use |-> "official", family |-> S_Doe, given |-> <<>>]>>
        /\ calls[k].body["gender"] = S_female
        /\ Len(calls[k].body["telecom"]) = 2

\* the values of the checked fields that have the required form, among
\* those validate is called with
WellFormed(f) ==
    CASE f = "gender" -> {S_male, S_female, S_other, S_unknown}
      [] f = "birthDate" -> {BD_Good}
      [] f = "phone" -> {PH_Good}
      [] OTHER -> {S_Doe, S_Jo}

RequiredMessage(f) ==
    CASE f = "family" -> "Family name is required"
      [] f = "given" -> "Given name is required"
      [] f = "gender" -> "Gender is required"
      [] f = "birthDate" -> "Birth date is required"
      [] f = "phone" -> "Phone number is required"

\* C18: validate(p) returns no issue exactly when family, given, gender,
\* birthDate and phone are all present and not empty and gender, birthDate
\* and phone have the required form; otherwise it returns at most one issue
\* per field, each with the path of a field that is missing or malformed,
\* and for a missing field the issue is the 'required' one
C18_ValidateVerdict ==
    validated.done =>
        LET p == validated.p
            issues == validated.issues
            Missing(f) == ~Has(p, f) \/ p[f] = <<>>
            Offending(f) == IF Missing(f) THEN TRUE ELSE p[f] \notin WellFormed(f)
            Of(f) == {j \in DOMAIN issues : issues[j].path = f}
        IN  /\ (issues = <<>>) <=> (\A f \in Fields : ~Offending(f))
            /\ \A f \in Fields :
                  /\ Cardinality(Of(f)) = (IF Offending(f) THEN 1 ELSE 0)
                  /\ Missing(f) =>
                        \A j \in Of(f) : issues[j].message = RequiredMessage(f)
                  /\ ~Missing(f) =>
                        \A j \in Of(f) : issues[j].message # RequiredMessage(f)
            /\ \A j \in DOMAIN issues : issues[j].path \in Fields

\* validate was called with a patient without family name, with an empty
\* phone number and with a malformed gender and birth date
C18_Witness ==
    /\ validated.done
    /\ validated.p = [given |-> S_Jo, gender |-> S_robot,
                      birthDate |-> BD_Slash, phone |-> <<>>]
    /\ Len(validated.issues) = 4
    /\ validated.issues[1] = Issue("Family name is required", "family")
    /\ validated.issues[4] = Issue("Phone number is required", "phone")

\* C19: a DELETE request is sent, from the list page or from the detail
\* page, only in the step in which the confirmation dialog opened for that
\* patient resolves with a confirmation; when the dialog resolves with a
\* cancel no request is sent, no call is made, and the loading flag and the
\* rows stay as they are
C19_DeleteOnlyConfirmed ==
    [][/\ \A k \in CallSlots :
            (/\ calls'[k].fn = "deleteOne" /\ calls'[k].pc = "fetch"
             /\ calls[k].pc = "idle") =>
                /\ dialog.id # 0 /\ dialog.id = calls'[k].id
                /\ dialog.from \in {"list", "show"}
                /\ dialog'.id = 0 /\ dialog'.answer = "confirm"
                /\ calls'[k].method = "DELETE"
       /\ (dialog.id # 0 /\ dialog'.answer = "cancel") =>
            /\ calls' = calls /\ sent' = sent /\ log' = log
            /\ view'.loading = view.loading /\ view'.rows = view.rows
            /\ dialog'.id = 0
      ]_vars

\* the user cancelled the dialog on the list page: both rows are shown, the
\* list is not loading and the only request was the one that loaded it
C19_Witness ==
    /\ route.page = "list" /\ dialog.answer = "cancel" /\ dialog.id = 0
    /\ view.rows = PIds /\ ~view.loading
    /\ NoCalls /\ sent = 1 /\ Len(log) = 1

\* C20: when the create submit succeeds the application navigates to the
\* detail page of the created patient, when the edit submit succeeds to
\* the detail page of the edited patient; when the submit fails it does not
\* navigate
C20_SubmitLeadsToDetail ==
    [][\A k \in CallSlots :
         LET c == calls[k]
             continues == calls'[k].pc # c.pc
         IN  /\ (/\ c.who = "create" /\ c.pc = "settled" /\ Ok(c.status)
                 /\ continues) =>
                    route' = [page |-> "show", id |-> c.got["id"]]
             /\ (/\ c.who = "edit" /\ c.method = "PUT"
                 /\ c.pc = "settled" /\ Ok(c.status) /\ continues) =>
                    route' = [page |-> "show", id |-> c.id]
             /\ (/\ c.who \in {"create", "edit"} /\ Ended(c)
                 /\ c.pc = "rejected" \/ ~Ok(c.status)
                 /\ continues) =>
                    route' = route
      ]_vars

C24_PartialSyncStays ==
    [][/\ \A s \in Slots :
            /\ FailStep(s) => store' = store
            /\ (cyc[s].pc = "paging" /\ cyc'[s].pc = "paging"
                /\ cyc'[s].count = cyc[s].count + 1) =>
                  LET r == Head(cyc[s].buf)
                  IN  /\ store'[r[1]] = r[2]
                      /\ \A i \in Ids \ {r[1]} : store'[i] = store[i]
       /\ \A c \in Clients :
            (req'[c] # req[c] /\ req'[c].op = "read" /\ req'[c].hit) =>
                /\ req'[c].val = store[req'[c].id]
                /\ req'[c].pc = "done" /\ req'[c].res = "ok"
      ]_vars

\* the first cycle failed after it upserted one of two resources: the
\* watermark is not set, one resource has its row and the other has none,
\* and a point read has returned the row
C24_Witness ==
    /\ \E s \in Slots : cyc[s].last = "error"
    /\ Running = {} /\ watermark = Null
    /\ \E i, j \in Ids :
          /\ i # j /\ i \in synced /\ store[i] = remote[i] /\ store[i] # 0
          /\ remote[j] # 0 /\ store[j] = 0
          /\ \E c \in Clients :
                /\ req[c].op = "read" /\ req[c].id = i /\ req[c].hit
                /\ req[c].val = store[i]

\* C25: the watermark is written in the step that ends a cycle with
\* success, once, with the clock value of that step, and in no other step:
\* not by a request of the Router (list, point read, create, update,
\* delete), not by a step of a running cycle, not by a cycle that fails,
\* not by a trigger the flag turns away
C25_WatermarkOnlyAtFinish ==
    [][ /\ watermark' # watermark =>
              /\ Cardinality({s \in Slots : FinishStep(s)}) = 1
              /\ watermark' = now
        /\ \A s \in Slots :
              /\ FinishStep(s) => watermark' = now /\ cyc[s].buf = <<>>
                                                  /\ cyc[s].next = <<>>
              /\ (cyc[s].pc # "idle" /\ cyc'[s].pc # "idle") =>
                    watermark' = watermark
        /\ \A c \in Clients :
              (req'[c] # req[c] /\ req'[c].op # "sync") =>
                    watermark' = watermark
        /\ (isSyncing /\ cyc' = cyc) => watermark' = watermark
      ]_vars

\* a cycle has completed and written the watermark, a second cycle runs,
\* has applied an upsert, and a manual
\* trigger has been turned away by the flag: the watermark is not after
\* the start of the running cycle
C25_Witness ==
    /\ watermark # Null
    /\ \E s \in Slots : /\ cyc[s].pc = "paging" /\ cyc[s].count > 0
                        /\ cyc[s].W = watermark
                        /\ cyc[s].started > watermark
    /\ \E c \in Clients : req[c].op = "sync" /\ req[c].res = "skipped"

\* C26: the step that handles a list request answers it, with the rows
\* the store holds in that step and without a remote request or a change
\* of a row; that step starts a cycle exactly when the watermark is more
\* than CACHE_STALE_MS before the clock and no cycle is running; the cycle
\* it starts has nobody waiting for it, and the answer is the same
\* whether or not a cycle was started
C26_ListStaleTrigger ==
    [][ \A c \in Clients :
          (req'[c] # req[c] /\ req'[c].op = "list") =>
              /\ req'[c].pc = "done" /\ req'[c].res = "ok"
              /\ req'[c].count = Cardinality({i \in Ids : store[i] # 0})
              /\ ~req'[c].contacted
              /\ store' = store /\ remote' = remote /\ watermark' = watermark
              /\ (Running' # Running) <=>
                     (now - watermark > CACHE_STALE_MS /\ Running = {})
              /\ req'[c].bg <=> (Running' # Running)
              /\ \A s \in Slots :
                    (cyc'[s] # cyc[s]) =>
                        /\ cyc[s].pc = "idle" /\ cyc'[s].pc = "query"
                        /\ cyc'[s].owner = 0 /\ cyc'[s].W = watermark
      ]_vars

\* a list request found rows and a watermark that an earlier cycle wrote
\* more than CACHE_STALE_MS ago, was answered with the rows, and the
\* cycle it started has not yet sent its first request
C26_Witness ==
    \E c \in Clients :
        /\ req[c].op = "list" /\ req[c].pc = "done" /\ req[c].bg
        /\ req[c].count >= 1
        /\ watermark # Null /\ now - watermark > CACHE_STALE_MS
        /\ \E s \in Slots : /\ cyc[s].pc = "query" /\ cyc[s].owner = 0
                            /\ cyc[s].started = now

\* the Router's delete of i has succeeded: the remote has confirmed it (no
\* other step removes a resource from the remote, and an identifier that
\* was deleted is not given out again) and the row has been removed
Deleted(i) ==
    /\ i \in assigned /\ remote[i] = 0
    /\ \A c \in Clients :
          ~(req[c].op = "delete" /\ req[c].id = i /\ req[c].pc = "remoteOk")

\* C27: from the state in which a delete of the Router has succeeded, the
\* store holds no row of the deleted identifier while the remote holds no
\* record of it, also when a cycle that fetched the record before the
\* delete applies its upserts after it
C27_DeletedStaysGone ==
    \A i \in Ids : Deleted(i) => store[i] = 0

\* the quick search of a call of getMany is in effect: a term that is not
\* blank after trimming
Searching(a) ==
    a.quickSearch # Undef /\ Trim(a.quickSearch) # <<>>

\* C21: every request of getMany carries _count = pageSize, _offset =
\* page * pageSize and _total = accurate; with a quick search term that is
\* not blank after trimming it carries the trimmed term in 'telecom' if
\* the term is made of digits, whitespace, '-', '+', '(' and ')', else in
\* 'name', and not in the other of the two; with a blank or absent term
\* 'name' and 'telecom' are carried only for a column filter
C21_QuickSearchParameter ==
    \A k \in CallSlots :
        (calls[k].fn = "getMany" /\ calls[k].who = "caller") =>
            LET a == calls[k].data
                q == calls[k].query
                t == Trim(a.quickSearch)
                target == IF TestPhone(t) THEN "telecom" ELSE "name"
                other == IF TestPhone(t) THEN "name" ELSE "telecom"
                FilterOf(f) ==
                    \E n \in DOMAIN a.filterModel.items :
                        /\ a.filterModel.items[n].field = f
                        /\ a.filterModel.items[n].value \notin {Undef, <<>>}
            IN  /\ {"_count", "_offset", "_total"} \subseteq DOMAIN q
                /\ q["_count"] = StringOf(a.paginationModel.pageSize)
                /\ q["_offset"] = StringOf(a.paginationModel.page
                                              * a.paginationModel.pageSize)
                /\ q["_total"] = S_accurate
                /\ IF Searching(a)
                   THEN /\ Has(q, target) /\ q[target] = t
                        /\ Has(q, other) => q[other] # t
                   ELSE /\ Has(q, "name") => FilterOf("name")
                        /\ Has(q, "telecom") => FilterOf("phone")

\* the entries of the calls of addEntry since the last call of
\* clearEntries, oldest first
RECURSIVE SinceClear(_)
SinceClear(h) ==
    IF h = <<>> THEN <<>>
    ELSE IF h[Len(h)].op = "clear" THEN <<>>
    ELSE Append(SinceClear(SubSeq(h, 1, Len(h) - 1)), h[Len(h)].entry)

Reverse(q) == [n \in 1..Len(q) |-> q[Len(q) + 1 - n]]

\* C22: in every state the log is the sequence of the entries added
\* since the last clearEntries, one for each call of addEntry, the newest
\* first; getEntries and getSnapshot return that sequence and change
\* nothing; clearEntries leaves the log empty
C22_LogNewestFirst ==
    /\ [](log = Reverse(SinceClear(hist)))
    /\ [][ /\ (getEntries \/ getSnapshot) =>
                /\ ret'.val = Reverse(SinceClear(hist))
                /\ log' = log
           /\ clearEntries => log' = <<>>
           /\ \A e \in LogEntries : CallAddEntry(e) =>
                /\ Len(log') = Len(log) + 1 /\ log'[1] = e
                /\ \A n \in 1..Len(log) : log'[n + 1] = log[n]
         ]_vars

\* after an entry was added and the log was cleared, two different
\* entries were added and getSnapshot returned them, the later one first
C22_Witness ==
    /\ Len(hist) = 4 /\ hist[1].op = "add" /\ hist[2].op = "clear"
    /\ hist[3].op = "add" /\ hist[4].op = "add"
    /\ hist[3].entry # hist[4].entry
    /\ ret.by = "getSnapshot"
    /\ ret.val = <<hist[4].entry, hist[3].entry>>
    /\ log = ret.val

\* C29: a call of addEntry or of clearEntries calls the listener of
\* every subscription that has not been unsubscribed exactly once and of
\* no other; the function returned by a call of subscribe takes the entry
\* of that call out of the list and leaves the entry of every other
\* subscription, a subscription of the same function included, in it
C29_ListenersNotified ==
    [][ /\ (clearEntries \/ \E e \in LogEntries : CallAddEntry(e)) =>
              \A j \in DOMAIN subs :
                  subs'[j].n = IF subs[j].on THEN 1 ELSE 0
        /\ \A j \in DOMAIN subs : unsubscribe(j) =>
              /\ \A q \in DOMAIN listeners' : listeners'[q].sub # j
              /\ \A i \in DOMAIN subs \ {j} :
                    Cardinality({q \in DOMAIN listeners' : listeners'[q].sub = i})
                      = Cardinality({q \in DOMAIN listeners : listeners[q].sub = i})
      ]_vars

\* C30: a createOne called with a record that passes validate, and
\* answered with the resource it sent and an id, returns the family,
\* given, gender, birthDate and phone of the record, and as name the
\* given and the family joined by one space
C30_RoundTrip ==
    \A k \in CallSlots :
        LET c == calls[k]
        IN  (/\ c.fn = "createOne" /\ c.who = "caller" /\ c.pc = "returned"
             /\ validate(c.data) = <<>>) =>
                /\ \A f \in {"family", "given", "gender", "birthDate", "phone"} :
                      c.out[f] = c.data[f]
                /\ c.out["name"] = c.data["given"] \o <<" ">> \o c.data["family"]
                /\ c.out["id"] \in PIds

\* a request of the list page is in flight: a getMany of loadData or a
\* deleteOne of handleRowDelete whose handler has not yet continued
ListRequestInFlight ==
    \E k \in CallSlots :
        /\ calls[k].pc # "idle" /\ calls[k].live
        /\ calls[k].who \in {"load", "deleteList"}

\* C28 (the loading flag): on the patient list, once its first load has
\* been started, isLoading is true exactly while a request of the page is
\* in flight
C28_LoadingWhileInFlight ==
    (route.page = "list" /\ ~view.fresh) =>
        (view.loading <=> ListRequestInFlight)

====
